---------------------------- MODULE Spec2Model ----------------------------
(***************************************************************************)
(* Model of the streaming ingestion / transcoding pipeline of the bison    *)
(* tracker (src/rtsp_bison_tracker_2.py): HLSManager (bounded frame queue, *)
(* writer thread, ffmpeg process shutdown, artifact path resolution) and   *)
(* StreamManager (capture loop with reconnect, stop).                      *)
(*                                                                         *)
(* Threads: "main" (start_stream, then stop), the HLS writer thread        *)
(* (_writer_loop), the capture thread (_stream_loop).  Every read of a     *)
(* shared attribute (self.proc, self.running) is one step, so that the     *)
(* interleavings of the unsynchronised accesses are all explored.          *)
(***************************************************************************)
EXTENDS Integers, Sequences, FiniteSets, Bags, TLC

\* ---------------------------------------------------------------- bounds
\* Frames the source delivers in the concurrency specification.
MaxFrames == 2
\* frames the capture loop reads where the writer's termination is checked
MaxFairFrames == 1
\* Frames the source delivers in the queue specification (enough to fill
\* the queue and overflow it twice).
MaxQueueFrames == 62
\* Failed reads of the capture handle.
MaxFails == 2
\* Calls of StreamManager.stop by the main thread (signal handler, finally).
MaxStops == 2
\* Length of a requested artifact name, in characters.
MaxNameLen == 6
\* Calls of get_current_frame by each reader.
MaxReads == 2
\* Calls of process_frame_detections, all cameras together, with a client
\* reading in between.
MaxCalls == 2
\* The largest limit a client gives get_tracking_paths.
MaxLimit == 2
\* Calls of process_frame_detections where the tracks' movement is followed.
MaxMoveCalls == 3
\* Calls of process_frame_detections before the heatmap is rebuilt.
MaxHeatCalls == 2
\* Calls of process_frame_detections where alerts are checked.
MaxAlertCalls == 2
\* Calls of process_frame_detections with unusual detections.
MaxEdgeCalls == 2
\* Frames read by each camera of the dashboard, and reads that fail.
MaxCamReads == 2
MaxCamFails == 1
\* Calls of process_frame_detections in the alert scenarios of the tests.
MaxScenarioCalls == 2
\* Detections in one frame (the scenario's 12 against the threshold 10).
MaxCrowd == 12
\* Sightings of one track (enough to pass the history cap twice).
MaxSightings == 1002
\* Latest reading of the clock, in seconds.
MaxTime == 2

\* ------------------------------------------------------ program constants
\* queue.Queue(maxsize=60)
QueueMaxsize == 60
\* analytics_engine.py: deque(maxlen=1000) of tracking_history
HistoryMaxlen == 1000
\* deque(maxlen=1000) of detection_confidence
ConfidenceMaxlen == 1000
\* heatmap_resolution = (100, 100)
HeatmapResolution == 100
\* a camera's frame rate, 30 frames per second, in hundredths
CameraFps == 3000
\* the rate substituted for an unusable one, 25.0, in hundredths
DefaultFps == 2500
\* get_heatmap_data: vis_grid_size = 20
VisGridSize == 20
\* get_heatmap_data: the canvas the points are scaled to, 800 by 450
CanvasWidth == 800
CanvasHeight == 450
\* alert_thresholds: 'high_activity': 10
HighActivity == 10
\* alert_thresholds: 'low_confidence': 0.3, in hundredths
LowConfidence == 30
\* alert_thresholds: 'crowd_detection': 15
CrowdDetection == 15
\* alert_thresholds: 'rapid_movement': 50
RapidMovement == 50
\* the frame size _rebuild_heatmap_from_db assumes
FrameWidth == 1920
FrameHeight == 1080
\* the 10x10 grid of _update_heatmap: 192 by 108 pixels a cell, last cell 9
CellWidth == 192
CellHeight == 108
LastCell == 9
\* the window of _rebuild_heatmap_from_db ('-24 hours'), in seconds
DaySeconds == 86400
\* for _ in range(5): polls after closing stdin
FlushPolls == 5
\* for _ in range(10): polls after terminate
TermPolls == 10

None == "None"
\* the two threads that can execute _close_proc
Closers == {"main", "writer"}
\* StreamManager.rtsp_url
RtspUrl == "rtsp_url"
\* threads that call get_current_frame (MJPEG clients)
Readers == {"r1", "r2"}
\* An object is known by who made it and which of its objects it is.
NoneObj == [by |-> "None", n |-> 0]

VARIABLES
    \* the frame rate
    src_fps,      \* what the source reports: cap.get(cv2.CAP_PROP_FPS)
    fps,          \* HLSManager.fps, the rate handed to ffmpeg (-r)
    \* HLSManager attributes
    hls,          \* StreamManager.hls: None or "hls"
    enabled,      \* HLSManager.enabled
    proc,         \* HLSManager.proc: None or "popen"
    tmpdir,       \* HLSManager.tmpdir: <<>> (None) or the directory's path
    frame_q,      \* HLSManager.frame_q: sequence of frame numbers
    running,      \* HLSManager.running
    stdin_lock,   \* holder of HLSManager.stdin_lock: "free" or "writer"
    \* the transcoder process and the file system
    procState,    \* "none" (never spawned), "running", "exited"
    stdinState,   \* proc.stdin: "none", "open", "closed"
    dirExists,    \* the private output directory exists on disk
    \* _close_proc, per calling thread
    cpc,          \* position in _close_proc
    ci,           \* iteration of the current wait loop
    lastPoll,     \* result of the thread's latest proc.poll() in this call
    sigSeq,       \* signals sent to the process, in order
    \* writer thread
    wPc,          \* position in _writer_loop
    wFrame,       \* its local variable frame, while an iteration uses it (0: none)
    lastWritten,  \* the last frame whose bytes reached the pipe (0: none)
    writeFailed,  \* a write raised
    writesAfterFail, \* write attempts begun after a write raised
    popsAfterStop,   \* queue pops by the writer after running was cleared
    \* main thread
    mPc,          \* position of the main thread
    hls_ok,       \* what HLSManager.start returned: "none", "True", "False"
    stops,        \* completed calls of StreamManager.stop
    stopLog,      \* per completed HLSManager.stop: "returned" or "raised"
    \* StreamManager and its capture thread
    sm_running,   \* StreamManager.running
    cap,          \* StreamManager.cap: "none", "open", "failed", "released"
    capUrl,       \* url the current capture handle was opened with
    openHandles,  \* capture handles opened and not released
    capPc,        \* position in _stream_loop
    frame_count,  \* its local frame_count
    fails,        \* failed reads so far
    current_frame,\* StreamManager.current_frame (0: None)
    total_frames, \* stats['total_frames']
    \* artifact resolution
    reqName,      \* the artifact name of the request
    served,       \* the request has been handled
    resolved,     \* what resolve_path returned for it (<<>>: None)
    artifacts,    \* the regular files on disk when the request is handled
    status,       \* the status of the response ("none": no response yet)
    \* readers of the latest frame (get_current_frame)
    frame_lock,   \* holder of StreamManager.frame_lock: "free" or a reader
    gPc,          \* per reader: "idle", "locked", "copied"
    gObj,         \* per reader: the object its latest call returned
    gVal,         \* per reader: the frame that object holds (0: none)
    gSeen,        \* per reader: current_frame when it took the lock
    gCalls,       \* per reader: calls of get_current_frame completed
    \* BisonAnalytics
    lock,              \* holder of BisonAnalytics.lock: "free", a camera, "reader"
    current_detections,\* camera -> the detections of its latest frame
    stats,             \* the stats dictionary
    detection_confidence, \* deque(maxlen=1000) of confidences
    tracking_history,  \* track -> deque(maxlen=1000) of <<x, y, time>>
    history_keys,      \* the keys of tracking_history, in insertion order
    movement_patterns, \* track -> movement record, NoMovement when absent
    zone_heatmap,      \* bag of <<camera, grid_y, grid_x>>: the cells' counts
    heatmap_keys,      \* the keys of zone_heatmap: the cameras that have a grid
    db,                \* the detections table: sequence of rows
    alerts_db,         \* the alerts table: sequence of alerts
    \* a camera's thread inside process_frame_detections
    pPc,               \* "idle", "loop", "alerts", "died"
    pDets,             \* the detections argument
    pIdx,              \* index of the detection the for loop is at
    pTime,             \* timestamp = datetime.now()
    pResult,           \* what the latest call returned
    frameNo,           \* FrameProcessor.frame_count
    calls,             \* calls of process_frame_detections made
    sumLens,           \* sum of len(detections) over those calls
    seen,              \* track -> every position appended to its history
    \* a client thread reading the aggregator
    rPc,               \* "idle", or "report_hist" inside generate_report
    lastRead,          \* the latest read: operation, value, circumstances
    rebuiltAt,         \* when the heatmap was rebuilt, if it is as that left it (else -1)
    \* the cameras' pipelines (EnhancedStreamManager, one per camera)
    em,                \* camera -> running, cap, position of its thread, current_frame
    emLog,             \* camera -> what happened to the camera itself, in order
    initIdx            \* initialize_system: the camera its loop is at

hlsVars  == <<hls, enabled, proc, tmpdir, frame_q, running, stdin_lock>>
osVars   == <<procState, stdinState, dirExists>>
closeVars == <<cpc, ci, lastPoll, sigSeq>>
writerVars == <<wPc, wFrame, lastWritten, writeFailed, writesAfterFail, popsAfterStop>>
mainVars == <<mPc, hls_ok, stops, stopLog>>
capVars  == <<sm_running, cap, capUrl, openHandles, capPc, frame_count, fails,
              current_frame, total_frames>>
pathVars == <<reqName, served, resolved, artifacts, status>>
frameVars == <<frame_lock, gPc, gObj, gVal, gSeen, gCalls>>
\* everything outside the stream manager and its transcode pipeline
anaVars == <<lock, current_detections, stats, detection_confidence,
             tracking_history, history_keys, movement_patterns, zone_heatmap,
             heatmap_keys, db, alerts_db,
             pPc, pDets, pIdx, pTime, pResult, frameNo, calls, sumLens, seen,
             rPc, lastRead, rebuiltAt>>
rateVars == <<src_fps, fps>>
camVars == <<em, emLog, initIdx>>
restVars == <<frameVars, anaVars, rateVars, camVars>>
\* the stream manager and its transcode pipeline
streamVars == <<hlsVars, osVars, closeVars, writerVars, mainVars, capVars, pathVars>>
vars == <<streamVars, restVars>>

\* ------------------------------------------------------------------ paths
\* A path is a sequence of one-character strings.
Chars == {"/", ".", "h", "x"}
\* tempfile.mkdtemp(prefix="hls_"): an absolute, normalised path
TmpDir == <<"/", "t", "/", "h">>
NoPath == <<>>

\* str.split('/'): the components of a path, empty ones included
RECURSIVE SplitSlash(_)
SplitSlash(s) ==
    IF s = <<>> THEN << <<>> >>
    ELSE LET rest == SplitSlash(Tail(s)) IN
         IF Head(s) = "/" THEN << <<>> >> \o rest
         ELSE << <<Head(s)>> \o Head(rest) >> \o Tail(rest)

\* '/'.join(comps)
RECURSIVE JoinSlash(_)
JoinSlash(comps) ==
    IF comps = <<>> THEN <<>>
    ELSE IF Len(comps) = 1 THEN Head(comps)
    ELSE Head(comps) \o <<"/">> \o JoinSlash(Tail(comps))

StartsWith(s, pre) ==
    /\ Len(pre) <= Len(s)
    /\ SubSeq(s, 1, Len(pre)) = pre

DotDot == <<".", ".">>

\* the loop of posixpath.normpath over the components
RECURSIVE NormComps(_, _, _)
NormComps(comps, acc, rooted) ==
    IF comps = <<>> THEN acc
    ELSE LET c == Head(comps) IN
         IF c = <<>> \/ c = <<".">> THEN NormComps(Tail(comps), acc, rooted)
         ELSE IF c # DotDot \/ (~rooted /\ acc = <<>>)
                            \/ (acc # <<>> /\ acc[Len(acc)] = DotDot)
              THEN NormComps(Tail(comps), Append(acc, c), rooted)
         ELSE IF acc # <<>>
              THEN NormComps(Tail(comps), SubSeq(acc, 1, Len(acc) - 1), rooted)
         ELSE NormComps(Tail(comps), acc, rooted)

\* os.path.normpath (posix)
normpath(path) ==
    IF path = <<>> THEN <<".">>
    ELSE LET slashes == IF ~StartsWith(path, <<"/">>) THEN 0
                        ELSE IF StartsWith(path, <<"/", "/">>)
                                /\ ~StartsWith(path, <<"/", "/", "/">>) THEN 2
                        ELSE 1
             body == JoinSlash(NormComps(SplitSlash(path), <<>>, slashes > 0))
             out == (IF slashes = 2 THEN <<"/", "/">>
                     ELSE IF slashes = 1 THEN <<"/">> ELSE <<>>) \o body
         IN IF out = <<>> THEN <<".">> ELSE out

\* os.path.join(a, b) (posix)
pathjoin(a, b) ==
    IF StartsWith(b, <<"/">>) THEN b
    ELSE IF a = <<>> \/ a[Len(a)] = "/" THEN a \o b
    ELSE a \o <<"/">> \o b

\* os.path.commonprefix([a, b]): the longest common prefix, character by
\* character
RECURSIVE commonprefix(_, _)
commonprefix(a, b) ==
    IF a = <<>> \/ b = <<>> \/ Head(a) # Head(b) THEN <<>>
    ELSE <<Head(a)>> \o commonprefix(Tail(a), Tail(b))

\* the files there may be: a segment in the private directory, and a file
\* next to the directory
ArtifactPaths == { TmpDir \o <<"/", "x">>, <<"/", "t", "/", "h", "x">> }

\* os.path.isfile: a file in the private directory is there as long as the
\* directory is
isfile(path) ==
    /\ path \in artifacts
    /\ StartsWith(path, TmpDir \o <<"/">>) => dirExists

\* os.path.exists: a file, the private directory, or one of its parents
exists(path) ==
    \/ isfile(path)
    \/ path = TmpDir /\ dirExists
    \/ path \in { <<"/">>, <<"/", "t">> }

\* a resolve_path that yields None for a path that does not exist
resolve_path_Existing(dir, name) ==
    IF dir = NoPath THEN NoPath
    ELSE LET candidate == normpath(pathjoin(dir, name)) IN
         IF commonprefix(candidate, dir) # dir \/ ~exists(candidate) THEN NoPath
         ELSE candidate

\* HLSManager.resolve_path
resolve_path(dir, name) ==
    IF dir = NoPath THEN NoPath
    ELSE LET candidate == normpath(pathjoin(dir, name)) IN
         IF commonprefix(candidate, dir) # dir THEN NoPath
         ELSE candidate

\* the names a request can carry
RECURSIVE StringsUpTo(_)
StringsUpTo(n) ==
    IF n = 0 THEN { <<>> }
    ELSE LET shorter == StringsUpTo(n - 1) IN
         shorter \cup { Append(s, c) : s \in {x \in shorter : Len(x) = n - 1}, c \in Chars }

Names == StringsUpTo(MaxNameLen)

\* ------------------------------------------------------ camera pipelines
\* CAMERAS, in the order initialize_system walks it
CameraList == << "cam1", "cam2" >>

\* EnhancedStreamManager.__init__, lines 185-197; reads and fails count the
\* frames read and the reads that failed
NoPipeline ==
    [running |-> FALSE, cap |-> "none", pc |-> "init", current_frame |-> 0,
     reads |-> 0, fails |-> 0]

\* what one event of a camera does to its pipeline when the camera runs on
\* its own: start (lines 199-211), a read and the reconnect after a failed
\* one (215-221), the frame stored (236-238)
AloneStep(p, event) ==
    CASE event = "open_ok" -> [p EXCEPT !.cap = "open", !.running = TRUE, !.pc = "read"]
      [] event = "open_fail" -> [p EXCEPT !.cap = "failed", !.pc = "off"]
      [] event = "read_ok" -> [p EXCEPT !.reads = @ + 1, !.pc = "process"]
      [] event = "read_fail" -> [p EXCEPT !.fails = @ + 1, !.cap = "reopened"]
      [] event = "store" -> [p EXCEPT !.current_frame = p.reads, !.pc = "read"]

\* the pipeline of a camera that runs on its own, after a list of events
RECURSIVE Alone(_)
Alone(events) ==
    IF events = << >> THEN NoPipeline
    ELSE AloneStep(Alone(SubSeq(events, 1, Len(events) - 1)), events[Len(events)])

\* ------------------------------------------------------------ frame rate
\* a frame rate, in hundredths of a frame per second, and not-a-number
Rate(v) == [nan |-> FALSE, v |-> v]
NaN == [nan |-> TRUE, v |-> 0]
\* no HLSManager has been constructed
NoRate == [nan |-> FALSE, v |-> -1]

\* the rates a source reports or a caller passes: not-a-number, negative,
\* zero, a half, exactly 1, just above 1, and a camera's usual rate
Rates == {NaN} \cup {Rate(v) : v \in {-500, 0, 50, 100, 101, CameraFps}}

\* start_stream, lines 261-263:
\* if not fps or math.isnan(fps) or fps <= 1: fps = 25.0
StartStreamFps(rate) ==
    IF (~rate.nan /\ rate.v = 0) \/ rate.nan \/ (~rate.nan /\ rate.v <= 100)
    THEN Rate(DefaultFps)
    ELSE rate

\* HLSManager.__init__, line 56:
\* self.fps = float(fps) if fps and not math.isnan(fps) else 25.0
HlsInitFps(rate) ==
    IF (rate.nan \/ rate.v # 0) /\ ~rate.nan THEN rate ELSE Rate(DefaultFps)

\* -------------------------------------------------------- analytics data
\* the cameras whose threads feed the aggregator
Cameras == {"cam1", "cam2"}
\* track ids a detection can carry; a detection without one carries None
Tracks == {0, 1, 2}
NoTrack == -1
\* a detection dictionary without the key 'confidence'
NoConfidence == -1

\* `if track_id:` (line 202): None and 0 are both false
truthy(track_id) == track_id # NoTrack /\ track_id # 0

\* detection.get('confidence', 0), lines 195 and 285
get_confidence(detection) ==
    IF detection.confidence = NoConfidence THEN 0 ELSE detection.confidence

\* a detection dictionary; the box is 20 by 20 around its centre
Detection(track, conf, cx, cy) ==
    [track_id |-> track, confidence |-> conf,
     bbox |-> <<cx - 10, cy - 10, cx + 10, cy + 10>>]

\* (a + b) / 2 for the boxes above, whose coordinate sums are even
Half(n) == n \div 2

\* int(a / b) for b > 0: Python's int truncates towards zero
Trunc(a, b) == IF a >= 0 THEN a \div b ELSE -((-a) \div b)

Abs(n) == IF n < 0 THEN -n ELSE n

Min(a, b) == IF a < b THEN a ELSE b

\* np.sqrt(dx**2 + dy**2), exact for the positions drawn here, whose
\* distances are whole numbers
Distance(dx, dy) ==
    LET n == dx * dx + dy * dy
    IN  CHOOSE r \in 0..(Abs(dx) + Abs(dy)) : r * r <= n /\ n < (r + 1) * (r + 1)

\* a deque that, when full, refuses the new element
deque_append_DropsNewest(q, x, maxlen) ==
    IF Len(q) >= maxlen THEN q ELSE Append(q, x)

\* deque(maxlen=...).append: a full deque drops its leftmost element
deque_append(q, x, maxlen) ==
    IF Len(q) >= maxlen THEN Append(Tail(q), x) ELSE Append(q, x)

\* movement_patterns.get(track_id, {}) of a track without an entry; its
\* fields are the defaults the code reads with .get(..., 0)
NoMovement ==
    [set |-> FALSE, current_speed |-> 0, avg_speed |-> 0, total_distance |-> 0,
     direction |-> <<0, 0>>]

\* a movement update that does not look at the elapsed time: speed 0 when
\* no time has passed
TrackMovement_NoGuard(hist, mov, bbox, timestamp) ==
    LET center_x == Half(bbox[1] + bbox[3])
        center_y == Half(bbox[2] + bbox[4])
        h == deque_append(hist, <<center_x, center_y, timestamp>>, HistoryMaxlen)
    IN  IF Len(h) > 1
        THEN LET prev_pos == h[Len(h) - 1]
                 time_diff == timestamp - prev_pos[3]
                 distance == Distance(center_x - prev_pos[1], center_y - prev_pos[2])
             IN  [history |-> h,
                  movement |->
                     [set |-> TRUE,
                      current_speed |-> IF time_diff > 0 THEN distance \div time_diff ELSE 0,
                      avg_speed |-> mov.current_speed,
                      total_distance |-> mov.total_distance + distance,
                      direction |-> <<center_y - prev_pos[2], center_x - prev_pos[1]>>]]
        ELSE [history |-> h, movement |-> mov]

\* _track_movement, lines 233-257: the new history of the track and its
\* new movement record.  speed is distance / time_diff, exact for the
\* distances and time differences drawn here; direction is kept as the
\* arguments <<dy, dx>> of np.arctan2.
TrackMovement(hist, mov, bbox, timestamp) ==
    LET center_x == Half(bbox[1] + bbox[3])
        center_y == Half(bbox[2] + bbox[4])
        h == deque_append(hist, <<center_x, center_y, timestamp>>, HistoryMaxlen)
    IN  IF Len(h) > 1
        THEN LET prev_pos == h[Len(h) - 1]
                 time_diff == timestamp - prev_pos[3]
                 distance == Distance(center_x - prev_pos[1], center_y - prev_pos[2])
             IN  IF time_diff > 0
                 THEN [history |-> h,
                       movement |->
                          [set |-> TRUE,
                           current_speed |-> distance \div time_diff,
                           avg_speed |-> mov.current_speed,
                           total_distance |-> mov.total_distance + distance,
                           direction |-> <<center_y - prev_pos[2], center_x - prev_pos[1]>>]]
                 ELSE [history |-> h, movement |-> mov]
        ELSE [history |-> h, movement |-> mov]

\* an index into an axis of a numpy array: negative indices count from the
\* end, anything outside -size..size-1 raises IndexError
IndexOk(i, size) == -size <= i /\ i < size
NpIndex(i, size) == IF i < 0 THEN i + size ELSE i

\* _update_heatmap, lines 259-265: the cell of the box's top left corner
UpdateCell(camera_id, bbox) ==
    [camera |-> camera_id,
     gy |-> Min(Trunc(bbox[2], CellHeight), LastCell),
     gx |-> Min(Trunc(bbox[1], CellWidth), LastCell)]

\* _rebuild_heatmap_from_db, lines 148-159: the cell of a row's centre
RebuildCell(row) ==
    [camera |-> row.camera_id,
     gy |-> Min(Trunc(Half(row.bbox[2] + row.bbox[4]) * HeatmapResolution, FrameHeight),
                HeatmapResolution - 1),
     gx |-> Min(Trunc(Half(row.bbox[1] + row.bbox[3]) * HeatmapResolution, FrameWidth),
                HeatmapResolution - 1)]

\* the cell an index pair lands in
Wrapped(cell) ==
    [camera |-> cell.camera, gy |-> NpIndex(cell.gy, HeatmapResolution),
     gx |-> NpIndex(cell.gx, HeatmapResolution)]

CellOk(cell) == IndexOk(cell.gy, HeatmapResolution) /\ IndexOk(cell.gx, HeatmapResolution)

\* a rebuild that counts only the rows of tracked animals
RECURSIVE RebuildFrom_TrackedOnly(_, _)
RebuildFrom_TrackedOnly(rows, grid) ==
    IF rows = <<>> THEN grid
    ELSE IF ~CellOk(RebuildCell(Head(rows))) THEN grid
    ELSE IF Head(rows).track_id = NoTrack THEN RebuildFrom_TrackedOnly(Tail(rows), grid)
    ELSE RebuildFrom_TrackedOnly(Tail(rows), grid (+) SetToBag({Wrapped(RebuildCell(Head(rows)))}))

\* _rebuild_heatmap_from_db, lines 148-171: the loop over the fetched rows;
\* an IndexError ends it (except Exception at line 168) with the cells
\* counted so far
RECURSIVE RebuildFrom(_, _)
RebuildFrom(rows, grid) ==
    IF rows = <<>> THEN grid
    ELSE IF ~CellOk(RebuildCell(Head(rows))) THEN grid
    ELSE RebuildFrom(Tail(rows), grid (+) SetToBag({Wrapped(RebuildCell(Head(rows)))}))

\* line 160: the grids the rebuild makes, self.zone_heatmap[camera_id] of
\* every row it comes to, the row whose index is out of range included
RECURSIVE RebuildKeys(_)
RebuildKeys(rows) ==
    IF rows = <<>> THEN {}
    ELSE IF ~CellOk(RebuildCell(Head(rows))) THEN {Head(rows).camera_id}
    ELSE {Head(rows).camera_id} \cup RebuildKeys(Tail(rows))

\* get_heatmap_data, lines 434-442: the cell of the 20 by 20 display grid a
\* cell of the 100 by 100 grid is added to, int(y / scale_y), int(x / scale_x)
AggCell(cell) ==
    [camera |-> cell.camera,
     gy |-> Trunc(cell.gy * VisGridSize, HeatmapResolution),
     gx |-> Trunc(cell.gx * VisGridSize, HeatmapResolution)]

\* the sum of the counts a grid holds at a set of cells
RECURSIVE SumCells(_, _)
SumCells(grid, cells) ==
    IF cells = {} THEN 0
    ELSE LET cell == CHOOSE x \in cells : TRUE
         IN  grid[cell] + SumCells(grid, cells \ {cell})

\* a display grid that marks the cells in which something was seen
aggregated_heatmap_Marks(grid, camera_id) ==
    LET cells == {x \in BagToSet(grid) : x.camera = camera_id}
    IN  [a \in {AggCell(x) : x \in cells} |-> 1]

\* get_heatmap_data, lines 431-443: aggregated_heatmap, the display grid of
\* a camera; every cell of the camera's grid with a count above 0 adds its
\* count to the display cell it falls in
aggregated_heatmap(grid, camera_id) ==
    LET cells == {x \in BagToSet(grid) : x.camera = camera_id}
    IN  [a \in {AggCell(x) : x \in cells} |->
            SumCells(grid, {x \in cells : AggCell(x) = a})]

\* the largest of a non-empty set of numbers
SetMax(S) == CHOOSE m \in S : \A x \in S : x <= m

\* nothing to display
NoHeatmapData == [max |-> 0, data |-> {}]

\* lines 451-457: the point of a cell of the display grid on the canvas
Point(a, value) ==
    [x |-> Trunc(a.gx * CanvasWidth, VisGridSize),
     y |-> Trunc(a.gy * CanvasHeight, VisGridSize),
     value |-> value]

\* a result whose points are the cells of the camera's 100 by 100 grid
get_heatmap_data_Raw(grid, keys, camera_id) ==
    LET cells == {x \in BagToSet(grid) : x.camera = camera_id}
    IN  IF camera_id \notin keys \/ cells = {} THEN NoHeatmapData
        ELSE [max |-> SetMax({grid[x] : x \in cells}),
              data |-> {Point(x, grid[x]) : x \in cells}]

\* get_heatmap_data, lines 425-462: what it returns for the grids (grid) of
\* the cameras that have one (keys).  The points are listed row by row; no
\* two of them share x and y, and they are kept here as a set.
get_heatmap_data(grid, keys, camera_id) ==
    LET agg == aggregated_heatmap(grid, camera_id)
    IN  IF camera_id \notin keys \/ DOMAIN agg = {} THEN NoHeatmapData
        ELSE [max |-> SetMax({agg[a] : a \in DOMAIN agg}),
              data |-> {Point(a, agg[a]) : a \in DOMAIN agg}]

\* lines 137-145: the rows of the last 24 hours (every stored box has its
\* four coordinates)
RecentRows(now) == SelectSeq(db, LAMBDA row : row.timestamp > now - DaySeconds)

\* the sum of seq[lo..hi], by halves
RECURSIVE SumRange(_, _, _)
SumRange(seq, lo, hi) ==
    IF lo > hi THEN 0
    ELSE IF lo = hi THEN seq[lo]
    ELSE LET mid == (lo + hi) \div 2
         IN  SumRange(seq, lo, mid) + SumRange(seq, mid + 1, hi)

SumConfidence(seq) == SumRange(seq, 1, Len(seq))

\* np.mean of a list of confidences, as the fraction <<sum, length>>
Mean(seq) == <<SumConfidence(seq), Len(seq)>>

\* the confidences of a list of detections
Confidences(dets) == [i \in 1..Len(dets) |-> get_confidence(dets[i])]

\* an alert dictionary
Alert(type, severity, camera_id, count, track_id, speed) ==
    [type |-> type, severity |-> severity, camera_id |-> camera_id,
     count |-> count, track_id |-> track_id, speed |-> speed]

\* a high activity check that fires at the threshold already
HighActivityAlerts_AtThreshold(camera_id, dets) ==
    IF Len(dets) >= HighActivity
    THEN << Alert("high_activity", "warning", camera_id, Len(dets), NoTrack, 0) >>
    ELSE << >>

\* _check_alerts, lines 271-281
HighActivityAlerts(camera_id, dets) ==
    IF Len(dets) > HighActivity
    THEN << Alert("high_activity", "warning", camera_id, Len(dets), NoTrack, 0) >>
    ELSE << >>

\* a low confidence check that fires at the threshold already
LowConfidenceAlerts_AtThreshold(camera_id, dets) ==
    IF dets # <<>> /\ SumConfidence(Confidences(dets)) <= LowConfidence * Len(dets)
    THEN << Alert("low_confidence", "info", camera_id, 0, NoTrack, 0) >>
    ELSE << >>

\* _check_alerts, lines 283-294: avg_conf < 0.3
LowConfidenceAlerts(camera_id, dets) ==
    IF dets # <<>> /\ SumConfidence(Confidences(dets)) < LowConfidence * Len(dets)
    THEN << Alert("low_confidence", "info", camera_id, 0, NoTrack, 0) >>
    ELSE << >>

\* a rapid movement check that fires at the threshold already
RECURSIVE RapidMovementAlerts_AtThreshold(_, _, _)
RapidMovementAlerts_AtThreshold(camera_id, mov, t) ==
    IF t \notin Tracks THEN << >>
    ELSE (IF mov[t].set /\ mov[t].current_speed >= RapidMovement
          THEN << Alert("rapid_movement", "warning", camera_id, 0, t, mov[t].current_speed) >>
          ELSE << >>) \o RapidMovementAlerts_AtThreshold(camera_id, mov, t + 1)

\* _check_alerts, lines 296-307: one alert per entry of movement_patterns
\* that is faster than the threshold (the entries are taken in the order of
\* their track ids here)
RECURSIVE RapidMovementAlerts(_, _, _)
RapidMovementAlerts(camera_id, mov, t) ==
    IF t \notin Tracks THEN << >>
    ELSE (IF mov[t].set /\ mov[t].current_speed > RapidMovement
          THEN << Alert("rapid_movement", "warning", camera_id, 0, t, mov[t].current_speed) >>
          ELSE << >>) \o RapidMovementAlerts(camera_id, mov, t + 1)

\* _check_alerts, lines 267-310: the alerts list
CheckAlerts(camera_id, dets, mov) ==
    HighActivityAlerts(camera_id, dets) \o LowConfidenceAlerts(camera_id, dets)
        \o RapidMovementAlerts(camera_id, mov, 0)

\* no read has been made
NoResult == [kept |-> FALSE]
NoRead == [op |-> "none", value |-> 0, held |-> FALSE, mid |-> FALSE,
           result |-> NoResult]

\* BisonAnalytics.__init__, lines 22-60, on a new database file: nothing to
\* rebuild the heatmap from
AnalyticsInit ==
    /\ lock = "free"
    /\ current_detections = [c \in Cameras |-> <<>>]
    /\ stats = [total_detections |-> 0, unique_tracks |-> {}, peak_count |-> 0,
                peak_time |-> -1, avg_confidence |-> <<0, 1>>, total_alerts |-> 0,
                cameras_active |-> 0]
    /\ detection_confidence = <<>>
    /\ tracking_history = [t \in Tracks |-> <<>>]
    /\ history_keys = <<>>
    /\ movement_patterns = [t \in Tracks |-> NoMovement]
    /\ zone_heatmap = EmptyBag
    /\ heatmap_keys = {}
    /\ db = <<>>
    /\ alerts_db = <<>>
    /\ pPc = [c \in Cameras |-> "idle"]
    /\ pDets = [c \in Cameras |-> <<>>]
    /\ pIdx = [c \in Cameras |-> 0]
    /\ pTime = [c \in Cameras |-> 0]
    /\ pResult = [c \in Cameras |-> [count |-> -1, alerts |-> <<>>]]
    /\ frameNo = [c \in Cameras |-> 0]
    /\ calls = 0
    /\ sumLens = 0
    /\ seen = [t \in Tracks |-> <<>>]
    /\ rPc = "idle"
    /\ lastRead = NoRead
    /\ rebuiltAt = 0

\* --------------------------------------------------------------- Init
\* HLSManager.__init__, StreamManager.__init__; no process, no threads; name
\* is the artifact name a request will carry
InitWith(name, files, rate) ==
    /\ src_fps = rate
    /\ fps = NoRate
    /\ em = [c \in Cameras |-> NoPipeline]
    /\ emLog = [c \in Cameras |-> << >>]
    /\ initIdx = 1
    /\ hls = None
    /\ enabled = FALSE
    /\ proc = None
    /\ tmpdir = NoPath
    /\ frame_q = <<>>
    /\ running = FALSE
    /\ stdin_lock = "free"
    /\ procState = "none"
    /\ stdinState = "none"
    /\ dirExists = FALSE
    /\ cpc = [t \in Closers |-> "idle"]
    /\ ci = [t \in Closers |-> 0]
    /\ lastPoll = [t \in Closers |-> "none"]
    /\ sigSeq = <<>>
    /\ wPc = "idle"
    /\ wFrame = 0
    /\ lastWritten = 0
    /\ writeFailed = FALSE
    /\ writesAfterFail = 0
    /\ popsAfterStop = 0
    /\ mPc = "init"
    /\ hls_ok = "none"
    /\ stops = 0
    /\ stopLog = <<>>
    /\ sm_running = FALSE
    /\ cap = "none"
    /\ capUrl = "none"
    /\ openHandles = 0
    /\ capPc = "idle"
    /\ frame_count = 0
    /\ fails = 0
    /\ current_frame = 0
    /\ total_frames = 0
    /\ reqName = name
    /\ served = FALSE
    /\ resolved = NoPath
    /\ artifacts = files
    /\ status = "none"
    /\ frame_lock = "free"
    /\ gPc = [r \in Readers |-> "idle"]
    /\ gObj = [r \in Readers |-> NoneObj]
    /\ gVal = [r \in Readers |-> 0]
    /\ gSeen = [r \in Readers |-> 0]
    /\ gCalls = [r \in Readers |-> 0]
    /\ AnalyticsInit

Init == InitWith(<<>>, {}, Rate(CameraFps))

\* the initial states with every artifact name a request can carry and
\* every set of files the transcoder and others may have left on disk
InitPath ==
    \E name \in Names, files \in SUBSET ArtifactPaths :
        InitWith(name, files, Rate(CameraFps))

\* the initial states with every frame rate a source may report
InitRate == \E rate \in Rates : InitWith(<<>>, {}, rate)

\* ------------------------------------------------------------ main thread
\* a start that sets the running flag and starts the writer thread before it
\* knows that the transcoder was spawned
HlsStart_ThreadAnyway(onPath, spawnOk) ==
    /\ hls' = "hls"
    /\ UNCHANGED <<frame_q, stdin_lock>>
    /\ IF ~onPath
       THEN /\ enabled' = FALSE
            /\ hls_ok' = "False"
            /\ UNCHANGED <<proc, tmpdir, running, procState, stdinState, dirExists, wPc>>
       ELSE /\ tmpdir' = TmpDir
            /\ dirExists' = TRUE
            /\ running' = TRUE
            /\ wPc' = "w_running"
            /\ IF ~spawnOk
               THEN /\ enabled' = FALSE
                    /\ hls_ok' = "False"
                    /\ UNCHANGED <<proc, procState, stdinState>>
               ELSE /\ enabled' = TRUE
                    /\ proc' = "popen"
                    /\ procState' = "running"
                    /\ stdinState' = "open"
                    /\ hls_ok' = "True"

\* HLSManager.start, as called by start_stream on a fresh HLSManager:
\* onPath is which("ffmpeg"), spawnOk is whether subprocess.Popen succeeds
HlsStart(onPath, spawnOk) ==
    /\ hls' = "hls"
    /\ UNCHANGED <<frame_q, stdin_lock>>
    /\ IF ~onPath
       THEN /\ enabled' = FALSE
            /\ hls_ok' = "False"
            /\ UNCHANGED <<proc, tmpdir, running, procState, stdinState, dirExists, wPc>>
       ELSE /\ tmpdir' = TmpDir
            /\ dirExists' = TRUE
            /\ IF ~spawnOk
               THEN /\ enabled' = FALSE
                    /\ hls_ok' = "False"
                    /\ UNCHANGED <<proc, running, procState, stdinState, wPc>>
               ELSE /\ enabled' = TRUE
                    /\ proc' = "popen"
                    /\ procState' = "running"
                    /\ stdinState' = "open"
                    /\ running' = TRUE
                    /\ wPc' = "w_running"
                    /\ hls_ok' = "True"

\* a start_stream that sets the running flag and starts the capture thread
\* before it looks at the handle
StartStream_StartsAnyway(openOk, onPath, spawnOk) ==
    /\ mPc = "init"
    /\ capUrl' = RtspUrl
    /\ sm_running' = TRUE
    /\ capPc' = "head"
    /\ IF ~openOk
       THEN /\ cap' = "failed"
            /\ mPc' = "cleanup"
            /\ UNCHANGED <<hlsVars, osVars, wPc, hls_ok, openHandles, fps>>
       ELSE /\ cap' = "open"
            /\ openHandles' = openHandles + 1
            /\ fps' = HlsInitFps(StartStreamFps(src_fps))
            /\ HlsStart(onPath, spawnOk)
            /\ mPc' = "serving"
    /\ UNCHANGED <<closeVars, wFrame, lastWritten, writeFailed, writesAfterFail,
                   popsAfterStop, stops, stopLog, frame_count, fails,
                   current_frame, total_frames, pathVars, frameVars, anaVars, camVars, src_fps>>

\* StreamManager.start_stream: openOk is whether the capture handle opens
StartStream(openOk, onPath, spawnOk) ==
    /\ mPc = "init"
    /\ capUrl' = RtspUrl
    /\ IF ~openOk
       THEN \* raise RuntimeError: main's finally calls stop
            /\ cap' = "failed"
            /\ mPc' = "cleanup"
            /\ UNCHANGED <<hlsVars, osVars, wPc, hls_ok, sm_running, openHandles, capPc, fps>>
       ELSE /\ cap' = "open"
            /\ openHandles' = openHandles + 1
            /\ fps' = HlsInitFps(StartStreamFps(src_fps))
            /\ HlsStart(onPath, spawnOk)
            /\ sm_running' = TRUE
            /\ capPc' = "head"
            /\ mPc' = "serving"
    /\ UNCHANGED <<closeVars, wFrame, lastWritten, writeFailed, writesAfterFail,
                   popsAfterStop, stops, stopLog, frame_count, fails,
                   current_frame, total_frames, pathVars, frameVars, anaVars, camVars, src_fps>>

\* HLSManager(width, height, rate), lines 53-71, constructed by a caller of
\* its own: onPath is which("ffmpeg")
HlsInit(rate, onPath) ==
    /\ mPc = "init"
    /\ hls = None
    /\ hls' = "hls"
    /\ fps' = HlsInitFps(rate)
    /\ enabled' = onPath
    /\ UNCHANGED <<proc, tmpdir, frame_q, running, stdin_lock, osVars, closeVars,
                   writerVars, mainVars, capVars, pathVars, frameVars, anaVars,
                   camVars, src_fps>>

\* StreamManager.stop, line 403: self.running = False
SmStopBegin ==
    /\ mPc \in {"serving", "cleanup", "stopped"}
    /\ stops < MaxStops
    /\ sm_running' = FALSE
    /\ mPc' = "sm_release"
    /\ UNCHANGED <<hlsVars, osVars, closeVars, writerVars, hls_ok, stops, stopLog,
                   cap, capUrl, openHandles, capPc, frame_count, fails,
                   current_frame, total_frames, pathVars, restVars>>

\* StreamManager.stop, lines 404-409: self.cap.release(); if self.hls: ...
SmStopRelease ==
    /\ mPc = "sm_release"
    /\ IF cap = "open"
       THEN cap' = "released" /\ openHandles' = openHandles - 1
       ELSE IF cap = "failed"
       THEN cap' = "released" /\ UNCHANGED openHandles
       ELSE UNCHANGED <<cap, openHandles>>
    /\ IF hls = None
       THEN mPc' = "stopped" /\ stops' = stops + 1
       ELSE mPc' = "hls_stop" /\ UNCHANGED stops
    /\ UNCHANGED <<hlsVars, osVars, closeVars, writerVars, hls_ok, stopLog,
                   sm_running, capUrl, capPc, frame_count, fails,
                   current_frame, total_frames, pathVars, restVars>>

\* HLSManager.stop, line 170: self.running = False
HlsStopBegin ==
    /\ mPc = "hls_stop"
    /\ running' = FALSE
    /\ mPc' = "drain_check"
    /\ UNCHANGED <<hls, enabled, proc, tmpdir, frame_q, stdin_lock, osVars,
                   closeVars, writerVars, hls_ok, stops, stopLog, capVars, pathVars, restVars>>

\* HLSManager.stop, line 172: while not self.frame_q.empty()
HlsStopDrainCheck ==
    /\ mPc = "drain_check"
    /\ mPc' = IF frame_q = <<>> THEN "close_call" ELSE "drain_get"
    /\ UNCHANGED <<hlsVars, osVars, closeVars, writerVars, hls_ok, stops, stopLog,
                   capVars, pathVars, restVars>>

\* HLSManager.stop, lines 173-176: get_nowait, break on queue.Empty
HlsStopDrainGet ==
    /\ mPc = "drain_get"
    /\ IF frame_q # <<>>
       THEN frame_q' = Tail(frame_q) /\ mPc' = "drain_check"
       ELSE UNCHANGED frame_q /\ mPc' = "close_call"
    /\ UNCHANGED <<hls, enabled, proc, tmpdir, running, stdin_lock, osVars,
                   closeVars, writerVars, hls_ok, stops, stopLog, capVars, pathVars, restVars>>

\* HLSManager.stop, line 177: self._close_proc()
HlsStopCloseCall ==
    /\ mPc = "close_call"
    /\ cpc' = [cpc EXCEPT !["main"] = "c186"]
    /\ mPc' = "in_close"
    /\ UNCHANGED <<hlsVars, osVars, ci, lastPoll, sigSeq, writerVars, hls_ok,
                   stops, stopLog, capVars, pathVars, restVars>>

\* _close_proc has returned to stop (line 178), or has raised: the exception
\* leaves HLSManager.stop and is swallowed by StreamManager.stop (line 412)
HlsStopCloseReturn ==
    /\ mPc = "in_close"
    /\ cpc["main"] \in {"returned", "raised"}
    /\ cpc' = [cpc EXCEPT !["main"] = "idle"]
    /\ IF cpc["main"] = "returned"
       THEN mPc' = "rmtree" /\ UNCHANGED <<stops, stopLog>>
       ELSE /\ mPc' = "stopped"
            /\ stops' = stops + 1
            /\ stopLog' = Append(stopLog, "raised")
    /\ UNCHANGED <<hlsVars, osVars, ci, lastPoll, sigSeq, writerVars, hls_ok,
                   capVars, pathVars, restVars>>

\* a stop that forgets to delete the directory
HlsStopRmtree_Skip ==
    /\ mPc = "rmtree"
    /\ mPc' = "tmp_none"
    /\ UNCHANGED <<hlsVars, osVars, closeVars, writerVars, hls_ok,
                   stops, stopLog, capVars, pathVars, restVars>>

\* HLSManager.stop, lines 178-182: shutil.rmtree(self.tmpdir)
HlsStopRmtree ==
    /\ mPc = "rmtree"
    /\ dirExists' = IF tmpdir # NoPath /\ dirExists THEN FALSE ELSE dirExists
    /\ mPc' = "tmp_none"
    /\ UNCHANGED <<hlsVars, procState, stdinState, closeVars, writerVars, hls_ok,
                   stops, stopLog, capVars, pathVars, restVars>>

\* HLSManager.stop, line 183: self.tmpdir = None; stop returns
HlsStopReturn ==
    /\ mPc = "tmp_none"
    /\ tmpdir' = NoPath
    /\ mPc' = "stopped"
    /\ stops' = stops + 1
    /\ stopLog' = Append(stopLog, "returned")
    /\ UNCHANGED <<hls, enabled, proc, frame_q, running, stdin_lock, osVars,
                   closeVars, writerVars, hls_ok, capVars, pathVars, restVars>>

\* ------------------------------------------------------------ _close_proc
\* what a step of _close_proc leaves alone
CloseFrame ==
    UNCHANGED <<hls, enabled, tmpdir, frame_q, running, stdin_lock, procState,
                dirExists, writerVars, mainVars, capVars, pathVars, restVars>>

\* self.proc.poll(): None while the process runs
Poll == IF procState = "running" THEN "running" ELSE "exited"

\* line 186: if self.proc
CloseCheckProc(t) ==
    /\ cpc[t] = "c186"
    /\ cpc' = [cpc EXCEPT ![t] = IF proc = None THEN "returned" ELSE "c188"]
    /\ UNCHANGED <<proc, stdinState, ci, lastPoll, sigSeq>>
    /\ CloseFrame

\* line 188: if self.proc.stdin; an AttributeError (self.proc is None by
\* now) is not caught here and leaves through the finally clause
CloseStdinCheck(t) ==
    /\ cpc[t] = "c188"
    /\ cpc' = [cpc EXCEPT ![t] = IF proc = None THEN "c_raise" ELSE "c190"]
    /\ UNCHANGED <<proc, stdinState, ci, lastPoll, sigSeq>>
    /\ CloseFrame

\* lines 189-196: self.proc.stdin.flush() and self.proc.stdin.close(), any
\* exception of either swallowed (the pipe is unbuffered: flush writes
\* nothing)
CloseStdin(t) ==
    /\ cpc[t] = "c190"
    /\ stdinState' = IF proc = None THEN stdinState ELSE "closed"
    /\ cpc' = [cpc EXCEPT ![t] = "c199"]
    /\ ci' = [ci EXCEPT ![t] = 0]
    /\ UNCHANGED <<proc, lastPoll, sigSeq>>
    /\ CloseFrame

\* One iteration of a wait loop (lines 198-201 and 207-210): poll, break if
\* the process has exited, else sleep; after `polls` iterations the loop ends.
CloseWait(t, at, polls, next) ==
    /\ cpc[t] = at
    /\ IF proc = None
       THEN /\ cpc' = [cpc EXCEPT ![t] = "c_raise"]
            /\ ci' = [ci EXCEPT ![t] = 0]
            /\ UNCHANGED lastPoll
       ELSE /\ lastPoll' = [lastPoll EXCEPT ![t] = Poll]
            /\ IF Poll = "exited"
               THEN /\ cpc' = [cpc EXCEPT ![t] = next]
                    /\ ci' = [ci EXCEPT ![t] = 0]
               ELSE IF ci[t] + 1 >= polls
               THEN /\ cpc' = [cpc EXCEPT ![t] = next]
                    /\ ci' = [ci EXCEPT ![t] = 0]
               ELSE /\ cpc' = [cpc EXCEPT ![t] = at]
                    /\ ci' = [ci EXCEPT ![t] = ci[t] + 1]
    /\ UNCHANGED <<proc, stdinState, sigSeq>>
    /\ CloseFrame

\* lines 198-201: for _ in range(5)
CloseWaitFlush(t) == CloseWait(t, "c199", FlushPolls, "c202")

\* A poll that decides whether a signal is sent (lines 202 and 211)
CloseSignalCheck(t, at, send, skip) ==
    /\ cpc[t] = at
    /\ IF proc = None
       THEN /\ cpc' = [cpc EXCEPT ![t] = "c_raise"]
            /\ UNCHANGED lastPoll
       ELSE /\ lastPoll' = [lastPoll EXCEPT ![t] = Poll]
            /\ cpc' = [cpc EXCEPT ![t] = IF Poll = "running" THEN send ELSE skip]
    /\ ci' = [ci EXCEPT ![t] = 0]
    /\ UNCHANGED <<proc, stdinState, sigSeq>>
    /\ CloseFrame

\* A signal (lines 203-206 and 212-215); an AttributeError is swallowed
CloseSignal(t, at, sig, next) ==
    /\ cpc[t] = at
    /\ sigSeq' = IF proc = None THEN sigSeq
                 ELSE Append(sigSeq, [by |-> t, sig |-> sig, seen |-> lastPoll[t],
                                      stdin |-> stdinState])
    /\ cpc' = [cpc EXCEPT ![t] = next]
    /\ UNCHANGED <<proc, stdinState, ci, lastPoll>>
    /\ CloseFrame

\* a check that goes straight to kill when the process still runs
CloseTermCheck_Kills(t) == CloseSignalCheck(t, "c202", "c213", "c207")

\* line 202: if self.proc.poll() is None
CloseTermCheck(t) == CloseSignalCheck(t, "c202", "c204", "c207")

\* lines 203-206: self.proc.terminate()
CloseTerminate(t) == CloseSignal(t, "c204", "term", "c207")

\* lines 207-210: for _ in range(10)
CloseWaitTerm(t) == CloseWait(t, "c207", TermPolls, "c211")

\* line 211: if self.proc.poll() is None
CloseKillCheck(t) == CloseSignalCheck(t, "c211", "c213", "c217")

\* lines 212-215: self.proc.kill()
CloseKill(t) == CloseSignal(t, "c213", "kill", "c217")

\* lines 216-217: finally: self.proc = None, on the normal path and on the
\* path of an uncaught AttributeError
CloseFinally(t) ==
    /\ cpc[t] \in {"c217", "c_raise"}
    /\ proc' = None
    /\ cpc' = [cpc EXCEPT ![t] = IF cpc[t] = "c217" THEN "returned" ELSE "raised"]
    /\ lastPoll' = [lastPoll EXCEPT ![t] = "none"]
    /\ UNCHANGED <<stdinState, ci, sigSeq>>
    /\ CloseFrame

\* one step of _close_proc by thread t
CloseStep(t) ==
    \/ CloseCheckProc(t)
    \/ CloseStdinCheck(t)
    \/ CloseStdin(t)
    \/ CloseWaitFlush(t)
    \/ CloseTermCheck(t)
    \/ CloseTerminate(t)
    \/ CloseWaitTerm(t)
    \/ CloseKillCheck(t)
    \/ CloseKill(t)
    \/ CloseFinally(t)

\* ----------------------------------------------------------- environment
\* the transcoder exits: on its own, after its input was closed, or after a
\* signal
ProcExit ==
    /\ procState = "running"
    /\ procState' = "exited"
    /\ UNCHANGED <<hlsVars, stdinState, dirExists, closeVars, writerVars,
                   mainVars, capVars, pathVars, restVars>>

\* ---------------------------------------------------------- writer thread
\* what a step of _writer_loop outside _close_proc leaves alone
WriterFrame ==
    UNCHANGED <<hls, enabled, proc, tmpdir, running, osVars, closeVars,
                mainVars, capVars, pathVars, restVars>>

\* a loop condition that does not look at the running flag
WriterLoopRunning_IgnoresFlag ==
    /\ wPc = "w_running"
    /\ wPc' = "w_proc"
    /\ UNCHANGED <<frame_q, stdin_lock, wFrame, lastWritten, writeFailed,
                   writesAfterFail, popsAfterStop>>
    /\ WriterFrame

\* line 126, first conjunct: while self.running
WriterLoopRunning ==
    /\ wPc = "w_running"
    /\ wPc' = IF running THEN "w_proc" ELSE "w_close"
    /\ UNCHANGED <<frame_q, stdin_lock, wFrame, lastWritten, writeFailed,
                   writesAfterFail, popsAfterStop>>
    /\ WriterFrame

\* line 126, second conjunct: and self.proc
WriterLoopProc ==
    /\ wPc = "w_proc"
    /\ wPc' = IF proc # None THEN "w_poll" ELSE "w_close"
    /\ UNCHANGED <<frame_q, stdin_lock, wFrame, lastWritten, writeFailed,
                   writesAfterFail, popsAfterStop>>
    /\ WriterFrame

\* line 126, third conjunct: and (self.proc.poll() is None); self.proc is
\* read again, and an AttributeError here is outside every try: the thread
\* dies without calling _close_proc
WriterLoopPoll ==
    /\ wPc = "w_poll"
    /\ wPc' = IF proc = None THEN "died"
              ELSE IF Poll = "running" THEN "w_get" ELSE "w_close"
    /\ UNCHANGED <<frame_q, stdin_lock, wFrame, lastWritten, writeFailed,
                   writesAfterFail, popsAfterStop>>
    /\ WriterFrame

\* a get that leaves the frame in the queue
WriterGet_Peeks ==
    /\ wPc = "w_get"
    /\ IF frame_q # <<>>
       THEN /\ wFrame' = Head(frame_q)
            /\ wPc' = "w_lock"
            /\ UNCHANGED <<frame_q, popsAfterStop>>
       ELSE /\ wPc' = "w_running"
            /\ UNCHANGED <<wFrame, frame_q, popsAfterStop>>
    /\ UNCHANGED <<stdin_lock, lastWritten, writeFailed, writesAfterFail>>
    /\ WriterFrame

\* lines 127-130: frame = self.frame_q.get(timeout=0.3); on queue.Empty:
\* continue
WriterGet ==
    /\ wPc = "w_get"
    /\ IF frame_q # <<>>
       THEN /\ wFrame' = Head(frame_q)
            /\ frame_q' = Tail(frame_q)
            /\ popsAfterStop' = IF running THEN popsAfterStop ELSE popsAfterStop + 1
            /\ wPc' = "w_lock"
       ELSE /\ wPc' = "w_running"
            /\ UNCHANGED <<wFrame, frame_q, popsAfterStop>>
    /\ UNCHANGED <<stdin_lock, lastWritten, writeFailed, writesAfterFail>>
    /\ WriterFrame

\* line 134: with self.stdin_lock
WriterLock ==
    /\ wPc = "w_lock"
    /\ stdin_lock = "free"
    /\ stdin_lock' = "writer"
    /\ wPc' = "w_check"
    /\ UNCHANGED <<frame_q, wFrame, lastWritten, writeFailed, writesAfterFail,
                   popsAfterStop>>
    /\ WriterFrame

\* line 135, first conjunct: if self.proc; false: nothing is written, the
\* lock is released and the loop goes on
WriterCheckProc ==
    /\ wPc = "w_check"
    /\ IF proc # None
       THEN wPc' = "w_check2" /\ UNCHANGED stdin_lock
       ELSE wPc' = "w_running" /\ stdin_lock' = "free"
    /\ wFrame' = IF wPc' \in {"w_check2", "w_write"} THEN wFrame ELSE 0
    /\ UNCHANGED <<frame_q, lastWritten, writeFailed, writesAfterFail,
                   popsAfterStop>>
    /\ WriterFrame

\* line 135, the rest: and self.proc.stdin and (self.proc.poll() is None);
\* an AttributeError is caught at line 137: break
WriterCheckPoll ==
    /\ wPc = "w_check2"
    /\ IF proc = None
       THEN wPc' = "w_close" /\ stdin_lock' = "free"
       ELSE IF Poll = "running"
       THEN wPc' = "w_write" /\ UNCHANGED stdin_lock
       ELSE wPc' = "w_running" /\ stdin_lock' = "free"
    /\ wFrame' = IF wPc' \in {"w_check2", "w_write"} THEN wFrame ELSE 0
    /\ UNCHANGED <<frame_q, lastWritten, writeFailed, writesAfterFail,
                   popsAfterStop>>
    /\ WriterFrame

\* line 136: self.proc.stdin.write(...) is called.  It raises at once when
\* self.proc is None (AttributeError) or the pipe object is closed
\* (ValueError); else the write is in progress.
WriterWriteBegin ==
    /\ wPc = "w_write"
    /\ writesAfterFail' = IF writeFailed THEN writesAfterFail + 1 ELSE writesAfterFail
    /\ IF proc = None \/ stdinState = "closed"
       THEN /\ writeFailed' = TRUE
            /\ wPc' = "w_close"
            /\ stdin_lock' = "free"
       ELSE /\ wPc' = "w_writing"
            /\ UNCHANGED <<writeFailed, stdin_lock>>
    /\ wFrame' = IF wPc' = "w_writing" THEN wFrame ELSE 0
    /\ UNCHANGED <<frame_q, lastWritten, popsAfterStop>>
    /\ WriterFrame

\* a failed write after which the loop goes on instead of breaking
WriterWriteEnd_Retries(ok) ==
    /\ wPc = "w_writing"
    /\ IF ok
       THEN /\ procState = "running"
            /\ lastWritten' = wFrame
            /\ UNCHANGED writeFailed
       ELSE /\ procState = "exited" \/ stdinState = "closed"
            /\ writeFailed' = TRUE
            /\ UNCHANGED lastWritten
    /\ wPc' = "w_running"
    /\ stdin_lock' = "free"
    /\ wFrame' = 0
    /\ UNCHANGED <<frame_q, writesAfterFail, popsAfterStop>>
    /\ WriterFrame

\* line 136: the write returns (ok) or raises (~ok).  It can raise when the
\* process has exited (broken pipe) or the pipe was closed under it; it can
\* succeed while the process runs.
WriterWriteEnd(ok) ==
    /\ wPc = "w_writing"
    /\ IF ok
       THEN /\ procState = "running"
            /\ lastWritten' = wFrame
            /\ wPc' = "w_running"
            /\ UNCHANGED writeFailed
       ELSE /\ procState = "exited" \/ stdinState = "closed"
            /\ writeFailed' = TRUE
            /\ wPc' = "w_close"
            /\ UNCHANGED lastWritten
    /\ stdin_lock' = "free"
    /\ wFrame' = 0
    /\ UNCHANGED <<frame_q, writesAfterFail, popsAfterStop>>
    /\ WriterFrame

\* line 142: self._close_proc()
WriterCloseCall ==
    /\ wPc = "w_close"
    /\ cpc' = [cpc EXCEPT !["writer"] = "c186"]
    /\ wPc' = "w_in_close"
    /\ UNCHANGED <<hlsVars, osVars, ci, lastPoll, sigSeq, wFrame, lastWritten,
                   writeFailed, writesAfterFail, popsAfterStop, mainVars,
                   capVars, pathVars, restVars>>

\* _close_proc has returned (the thread ends) or has raised (the thread dies)
WriterCloseReturn ==
    /\ wPc = "w_in_close"
    /\ cpc["writer"] \in {"returned", "raised"}
    /\ wPc' = IF cpc["writer"] = "returned" THEN "done" ELSE "died"
    /\ cpc' = [cpc EXCEPT !["writer"] = "idle"]
    /\ UNCHANGED <<hlsVars, osVars, ci, lastPoll, sigSeq, wFrame, lastWritten,
                   writeFailed, writesAfterFail, popsAfterStop, mainVars,
                   capVars, pathVars, restVars>>

\* a step of the writer's loop (lines 126-140)
WriterLoopStep ==
    \/ WriterLoopRunning
    \/ WriterLoopProc
    \/ WriterLoopPoll
    \/ WriterGet
    \/ WriterLock
    \/ WriterCheckProc
    \/ WriterCheckPoll
    \/ WriterWriteBegin
    \/ WriterWriteEnd(TRUE)

\* a step of the writer on its way out (line 142), or a write that raises
WriterExitStep ==
    \/ WriterWriteEnd(FALSE)
    \/ WriterCloseCall
    \/ (wPc = "w_in_close" /\ CloseStep("writer"))
    \/ WriterCloseReturn

\* one step of the writer thread
WriterStep ==
    \/ WriterLoopStep
    \/ WriterExitStep

\* --------------------------------------------------------- capture thread
\* what a step of _stream_loop leaves alone, the frame queue apart
CaptureFrame ==
    UNCHANGED <<hls, enabled, proc, tmpdir, running, stdin_lock, osVars,
                closeVars, writerVars, mainVars, sm_running, pathVars, restVars>>

\* a loop head that starts the next iteration whatever the flag says
CapLoopHead_IgnoresFlag ==
    /\ capPc = "head"
    /\ capPc' = "read"
    /\ UNCHANGED <<frame_q, cap, capUrl, openHandles, frame_count, fails,
                   current_frame, total_frames>>
    /\ CaptureFrame

\* line 284: while self.running
CapLoopHead ==
    /\ capPc = "head"
    /\ capPc' = IF sm_running THEN "read" ELSE "exit"
    /\ UNCHANGED <<frame_q, cap, capUrl, openHandles, frame_count, fails,
                   current_frame, total_frames>>
    /\ CaptureFrame

\* a loop that gives up at the second failed read
CapRead_GivesUp(ok, limit) ==
    /\ capPc = "read"
    /\ IF ok
       THEN /\ cap = "open"
            /\ frame_count < limit
            /\ frame_count' = frame_count + 1
            /\ capPc' = "store"
            /\ UNCHANGED fails
       ELSE /\ fails < MaxFails
            /\ fails' = fails + 1
            /\ capPc' = IF fails >= 1 THEN "exit" ELSE "release"
            /\ UNCHANGED frame_count
    /\ UNCHANGED <<frame_q, cap, capUrl, openHandles, current_frame, total_frames>>
    /\ CaptureFrame

\* lines 285-307: ret, frame = self.cap.read().  A read succeeds only on an
\* open handle; then the frame counters are incremented and the frame is
\* annotated.  limit bounds the frames the source delivers.
CapRead(ok, limit) ==
    /\ capPc = "read"
    /\ IF ok
       THEN /\ cap = "open"
            /\ frame_count < limit
            /\ frame_count' = frame_count + 1
            /\ capPc' = "store"
            /\ UNCHANGED fails
       ELSE /\ fails < MaxFails
            /\ fails' = fails + 1
            /\ capPc' = "release"
            /\ UNCHANGED frame_count
    /\ UNCHANGED <<frame_q, cap, capUrl, openHandles, current_frame, total_frames>>
    /\ CaptureFrame

\* line 288: self.cap.release()
CapRelease ==
    /\ capPc = "release"
    /\ cap' = "released"
    /\ openHandles' = IF cap = "open" THEN openHandles - 1 ELSE openHandles
    /\ capPc' = "sleep"
    /\ UNCHANGED <<frame_q, capUrl, frame_count, fails, current_frame, total_frames>>
    /\ CaptureFrame

\* line 289: time.sleep(1)
CapSleep ==
    /\ capPc = "sleep"
    /\ capPc' = "reopen"
    /\ UNCHANGED <<frame_q, cap, capUrl, openHandles, frame_count, fails,
                   current_frame, total_frames>>
    /\ CaptureFrame

\* the url the loop re-opens
ReopenUrl == RtspUrl

\* lines 290-291: self.cap = cv2.VideoCapture(self.rtsp_url); continue
CapReopen(ok) ==
    /\ capPc = "reopen"
    /\ cap' = IF ok THEN "open" ELSE "failed"
    /\ capUrl' = ReopenUrl
    /\ openHandles' = IF ok THEN openHandles + 1 ELSE openHandles
    /\ capPc' = "head"
    /\ UNCHANGED <<frame_q, frame_count, fails, current_frame, total_frames>>
    /\ CaptureFrame

\* lines 309-311: with self.frame_lock: self.current_frame = frame.copy()
CapStore ==
    /\ capPc = "store"
    /\ frame_lock = "free"
    /\ current_frame' = frame_count
    /\ capPc' = "submit"
    /\ UNCHANGED <<frame_q, cap, capUrl, openHandles, frame_count, fails, total_frames>>
    /\ CaptureFrame

\* line 314: if self.hls and self.hls.enabled
CapSubmit ==
    /\ capPc = "submit"
    /\ capPc' = IF hls # None /\ enabled THEN "wf_check" ELSE "count"
    /\ UNCHANGED <<frame_q, cap, capUrl, openHandles, frame_count, fails,
                   current_frame, total_frames>>
    /\ CaptureFrame

\* write_frame, lines 146-147: if not self.enabled or not self.running: return
WriteFrameCheck ==
    /\ capPc = "wf_check"
    /\ capPc' = IF ~enabled \/ ~running THEN "count" ELSE "wf_put"
    /\ UNCHANGED <<frame_q, cap, capUrl, openHandles, frame_count, fails,
                   current_frame, total_frames>>
    /\ CaptureFrame

\* a put that never finds the queue full
put_nowait_Unbounded(q, frame) == Append(q, frame)

\* queue.Queue.put_nowait: queue.Full when maxsize items are queued
put_nowait(q, frame) ==
    IF Len(q) >= QueueMaxsize THEN q ELSE Append(q, frame)

\* write_frame, lines 149-153: put_nowait, queue.Full swallowed
WriteFramePut ==
    /\ capPc = "wf_put"
    /\ frame_q' = put_nowait(frame_q, frame_count)
    /\ capPc' = "count"
    /\ UNCHANGED <<cap, capUrl, openHandles, frame_count, fails, current_frame,
                   total_frames>>
    /\ CaptureFrame

\* lines 319-322: self.stats['total_frames'] = frame_count; time.sleep(0.001)
CapCount ==
    /\ capPc = "count"
    /\ total_frames' = frame_count
    /\ capPc' = "head"
    /\ UNCHANGED <<frame_q, cap, capUrl, openHandles, frame_count, fails, current_frame>>
    /\ CaptureFrame

\* a step of the capture loop on the path of a successful read
CaptureFrameStep(limit) ==
    \/ CapLoopHead
    \/ CapRead(TRUE, limit)
    \/ CapStore
    \/ CapSubmit
    \/ WriteFrameCheck
    \/ WriteFramePut
    \/ CapCount

\* a step of the capture loop on the path of a failed read (lines 286-291)
CaptureReconnectStep(limit) ==
    \/ CapRead(FALSE, limit)
    \/ CapRelease
    \/ CapSleep
    \/ \E ok \in BOOLEAN : CapReopen(ok)

\* one step of the capture thread
CaptureStep(limit) ==
    \/ CaptureFrameStep(limit)
    \/ CaptureReconnectStep(limit)

\* line 284, where the source still has a failed read to give: the read of
\* an iteration that was started can then always return
CapLoopHeadWithin ==
    /\ sm_running => fails < MaxFails
    /\ CapLoopHead

\* one step of the capture thread, whose started iterations can all finish
CaptureStepWithin(limit) ==
    \/ CapLoopHeadWithin
    \/ CapRead(TRUE, limit)
    \/ CapStore
    \/ CapSubmit
    \/ WriteFrameCheck
    \/ WriteFramePut
    \/ CapCount
    \/ CaptureReconnectStep(limit)

\* one step of the main thread
MainStep ==
    \/ \E openOk, onPath, spawnOk \in BOOLEAN : StartStream(openOk, onPath, spawnOk)
    \/ SmStopBegin
    \/ SmStopRelease
    \/ HlsStopBegin
    \/ HlsStopDrainCheck
    \/ HlsStopDrainGet
    \/ HlsStopCloseCall
    \/ (mPc = "in_close" /\ CloseStep("main"))
    \/ HlsStopCloseReturn
    \/ HlsStopRmtree
    \/ HlsStopReturn

\* ------------------------------------------------ readers of latest frame
\* the object self.current_frame refers to: the copy made at line 311
CurrentFrameObj ==
    IF current_frame = 0 THEN NoneObj ELSE [by |-> "capture", n |-> current_frame]

\* the object the capture loop's local variable frame refers to (cap.read)
LocalFrameObj ==
    IF capPc \in {"store", "submit", "wf_check", "wf_put", "count"}
    THEN [by |-> "read", n |-> frame_count]
    ELSE NoneObj

\* get_current_frame, line 399: with self.frame_lock
GetLock(r) ==
    /\ gPc[r] = "idle"
    /\ gCalls[r] < MaxReads
    /\ frame_lock = "free"
    /\ frame_lock' = r
    /\ gPc' = [gPc EXCEPT ![r] = "locked"]
    /\ gObj' = [gObj EXCEPT ![r] = NoneObj]
    /\ gVal' = [gVal EXCEPT ![r] = 0]
    /\ gSeen' = [gSeen EXCEPT ![r] = current_frame]
    /\ UNCHANGED <<gCalls, streamVars, anaVars, rateVars, camVars>>

\* a reader that is handed the stored object itself
GetCopy_NoCopy(r) ==
    /\ gPc[r] = "locked"
    /\ gObj' = [gObj EXCEPT ![r] = CurrentFrameObj]
    /\ gVal' = [gVal EXCEPT ![r] = current_frame]
    /\ gPc' = [gPc EXCEPT ![r] = "copied"]
    /\ UNCHANGED <<frame_lock, gSeen, gCalls, streamVars, anaVars, rateVars, camVars>>

\* line 400: self.current_frame.copy() if self.current_frame is not None
\* else None; ndarray.copy makes a new object with the same content
GetCopy(r) ==
    /\ gPc[r] = "locked"
    /\ IF current_frame # 0
       THEN /\ gObj' = [gObj EXCEPT ![r] = [by |-> r, n |-> gCalls[r] + 1]]
            /\ gVal' = [gVal EXCEPT ![r] = current_frame]
       ELSE /\ gObj' = [gObj EXCEPT ![r] = NoneObj]
            /\ gVal' = [gVal EXCEPT ![r] = 0]
    /\ gPc' = [gPc EXCEPT ![r] = "copied"]
    /\ UNCHANGED <<frame_lock, gSeen, gCalls, streamVars, anaVars, rateVars, camVars>>

\* line 400: return, leaving the with block
GetReturn(r) ==
    /\ gPc[r] = "copied"
    /\ frame_lock' = "free"
    /\ gPc' = [gPc EXCEPT ![r] = "idle"]
    /\ gCalls' = [gCalls EXCEPT ![r] = @ + 1]
    /\ UNCHANGED <<gObj, gVal, gSeen, streamVars, anaVars, rateVars, camVars>>

\* one step of a call of get_current_frame
GetCurrentFrameStep ==
    \E r \in Readers : GetLock(r) \/ GetCopy(r) \/ GetReturn(r)

\* ------------------------------------------------------------------ HTTP
\* serve_hls_file, lines 528-551: 404 without an enabled pipeline (530-532),
\* 404 when resolve_path gives None or the path does not exist (533-536),
\* 200 with the file's bytes, 500 when reading it fails (537-551); readOk is
\* whether a file that exists can still be read when it is opened
ServeHlsFile(readOk) ==
    /\ ~served
    /\ served' = TRUE
    /\ IF hls = None \/ ~enabled
       THEN /\ status' = "404"
            /\ UNCHANGED resolved
       ELSE /\ resolved' = resolve_path(tmpdir, reqName)
            /\ status' = IF resolved' = NoPath \/ ~exists(resolved') THEN "404"
                          ELSE IF isfile(resolved') /\ readOk THEN "200"
                          ELSE "500"
    /\ UNCHANGED <<hlsVars, osVars, closeVars, writerVars, mainVars, capVars,
                   reqName, artifacts, restVars>>

\* -------------------------------------------------------------- analytics
\* what a step of process_frame_detections leaves alone outside BisonAnalytics
AnalyticsFrame == UNCHANGED <<streamVars, frameVars, rateVars, camVars>>

\* a call of process_frame_detections is under way
InCall == \E c \in Cameras : pPc[c] \in {"loop", "alerts"}

\* an aggregator that counts frames, not detections
PfdEnter_CountsFrames(c, dets, now, limit) ==
    /\ pPc[c] = "idle"
    /\ lock = "free"
    /\ calls < limit
    /\ lock' = c
    /\ frameNo' = [frameNo EXCEPT ![c] = @ + 1]
    /\ pTime' = [pTime EXCEPT ![c] = now]
    /\ pDets' = [pDets EXCEPT ![c] = dets]
    /\ pIdx' = [pIdx EXCEPT ![c] = 1]
    /\ current_detections' = [current_detections EXCEPT ![c] = dets]
    /\ stats' = [stats EXCEPT
                   !.total_detections = @ + 1,
                   !.cameras_active =
                       Cardinality({d \in Cameras : current_detections'[d] # <<>>})]
    /\ pPc' = [pPc EXCEPT ![c] = IF dets = <<>> THEN "alerts" ELSE "loop"]
    /\ calls' = calls + 1
    /\ sumLens' = sumLens + Len(dets)
    /\ rebuiltAt' = -1
    /\ UNCHANGED <<detection_confidence, tracking_history, history_keys,
                   movement_patterns, zone_heatmap, heatmap_keys, db, alerts_db,
                   pResult, seen, rPc, lastRead>>
    /\ AnalyticsFrame

\* FrameProcessor.process_frame (enhanced_dashboard.py lines 87-89, 144-146)
\* calling process_frame_detections, lines 182-190: the lock is taken, the
\* clock is read, the frame's detections are stored and counted
PfdEnter(c, dets, now, limit) ==
    /\ pPc[c] = "idle"
    /\ lock = "free"
    /\ calls < limit
    /\ lock' = c
    /\ frameNo' = [frameNo EXCEPT ![c] = @ + 1]
    /\ pTime' = [pTime EXCEPT ![c] = now]
    /\ pDets' = [pDets EXCEPT ![c] = dets]
    /\ pIdx' = [pIdx EXCEPT ![c] = 1]
    /\ current_detections' = [current_detections EXCEPT ![c] = dets]
    /\ stats' = [stats EXCEPT
                   !.total_detections = @ + Len(dets),
                   !.cameras_active =
                       Cardinality({d \in Cameras : current_detections'[d] # <<>>})]
    /\ pPc' = [pPc EXCEPT ![c] = IF dets = <<>> THEN "alerts" ELSE "loop"]
    /\ calls' = calls + 1
    /\ sumLens' = sumLens + Len(dets)
    /\ rebuiltAt' = -1
    /\ UNCHANGED <<detection_confidence, tracking_history, history_keys,
                   movement_patterns, zone_heatmap, heatmap_keys, db, alerts_db,
                   pResult, seen, rPc, lastRead>>
    /\ AnalyticsFrame

\* a row that carries the number of calls made so far as its frame number
Row_CallNumber(c, d) ==
    [camera_id |-> c, track_id |-> d.track_id, confidence |-> d.confidence,
     bbox |-> d.bbox, frame_number |-> calls, timestamp |-> pTime[c]]

\* _store_detection, lines 312-333: the row of a detection; the table stamps
\* it with the time of the insert
Row(c, d) ==
    [camera_id |-> c, track_id |-> d.track_id, confidence |-> d.confidence,
     bbox |-> d.bbox, frame_number |-> frameNo[c], timestamp |-> pTime[c]]

\* lines 193-212: one pass of the for loop.  storeOk is whether the insert
\* of _store_detection succeeds; when it raises, or when the heatmap index
\* is out of range, the exception leaves the with block (the lock is
\* released), process_frame and the camera's _stream_loop, which has no
\* handler around line 233 of enhanced_dashboard.py.
PfdDetection(c, storeOk) ==
    /\ pPc[c] = "loop"
    /\ LET d == pDets[c][pIdx[c]]
           t == d.track_id
           tracked == truthy(t)
           tm == TrackMovement(tracking_history[t], movement_patterns[t], d.bbox, pTime[c])
           cell == UpdateCell(c, d.bbox)
           raised == (tracked /\ ~CellOk(cell)) \/ ~storeOk
       IN  /\ detection_confidence' =
                  deque_append(detection_confidence, get_confidence(d), ConfidenceMaxlen)
           /\ IF tracked
              THEN /\ stats' = [stats EXCEPT !.unique_tracks = @ \cup {t}]
                   /\ tracking_history' = [tracking_history EXCEPT ![t] = tm.history]
                   /\ movement_patterns' = [movement_patterns EXCEPT ![t] = tm.movement]
                   /\ seen' = [seen EXCEPT ![t] =
                                Append(@, <<Half(d.bbox[1] + d.bbox[3]),
                                            Half(d.bbox[2] + d.bbox[4]), pTime[c]>>)]
                   /\ history_keys' = IF \E i \in 1..Len(history_keys) : history_keys[i] = t
                                      THEN history_keys
                                      ELSE Append(history_keys, t)
                   /\ zone_heatmap' = IF CellOk(cell)
                                      THEN zone_heatmap (+) SetToBag({Wrapped(cell)})
                                      ELSE zone_heatmap
                   /\ heatmap_keys' = heatmap_keys \cup {c}
              ELSE UNCHANGED <<stats, tracking_history, history_keys,
                               movement_patterns, seen, zone_heatmap, heatmap_keys>>
           /\ db' = IF (tracked /\ ~CellOk(cell)) \/ ~storeOk THEN db
                    ELSE Append(db, Row(c, d))
           /\ IF raised
              THEN /\ lock' = "free"
                   /\ pPc' = [pPc EXCEPT ![c] = "died"]
                   /\ UNCHANGED pIdx
              ELSE /\ UNCHANGED lock
                   /\ pIdx' = [pIdx EXCEPT ![c] = @ + 1]
                   /\ pPc' = [pPc EXCEPT ![c] =
                                 IF pIdx[c] = Len(pDets[c]) THEN "alerts" ELSE "loop"]
    /\ UNCHANGED <<current_detections, alerts_db, pDets, pTime, pResult, frameNo,
                   calls, sumLens, rPc, lastRead, rebuiltAt>>
    /\ AnalyticsFrame

\* a call that also moves the peak time when its count equals the peak
PfdFinish_PeakOnTie(c, alertOk) ==
    /\ pPc[c] = "alerts"
    /\ LET dets == pDets[c]
           alerts == CheckAlerts(c, dets, movement_patterns)
           stored == HighActivityAlerts(c, dets)
       IN  /\ alertOk \/ stored # <<>>
           /\ lock' = "free"
           /\ IF stored # <<>> /\ ~alertOk
              THEN /\ pPc' = [pPc EXCEPT ![c] = "died"]
                   /\ UNCHANGED <<alerts_db, stats, pResult>>
              ELSE /\ pPc' = [pPc EXCEPT ![c] = "idle"]
                   /\ alerts_db' = alerts_db \o stored
                   /\ stats' = [stats EXCEPT
                                  !.total_alerts = @ + Len(alerts),
                                  !.peak_count = IF Len(dets) > @ THEN Len(dets) ELSE @,
                                  !.peak_time = IF Len(dets) >= stats.peak_count
                                                THEN pTime[c] ELSE @,
                                  !.avg_confidence =
                                      IF detection_confidence # <<>>
                                      THEN Mean(detection_confidence) ELSE @]
                   /\ pResult' = [pResult EXCEPT ![c] =
                                    [count |-> Len(dets), alerts |-> alerts]]
    /\ UNCHANGED <<current_detections, detection_confidence, tracking_history,
                   history_keys, movement_patterns, zone_heatmap, heatmap_keys,
                   db, pDets, pIdx, pTime,
                   frameNo, calls, sumLens, seen, rPc, lastRead, rebuiltAt>>
    /\ AnalyticsFrame

\* lines 214-231: the alerts are checked (the insert of _store_alert for a
\* high activity alert succeeds or raises, alertOk), the peak and the
\* average confidence are updated, the lock is released and the result is
\* returned to the camera's loop
PfdFinish(c, alertOk) ==
    /\ pPc[c] = "alerts"
    /\ LET dets == pDets[c]
           alerts == CheckAlerts(c, dets, movement_patterns)
           stored == HighActivityAlerts(c, dets)
       IN  /\ alertOk \/ stored # <<>>
           /\ lock' = "free"
           /\ IF stored # <<>> /\ ~alertOk
              THEN /\ pPc' = [pPc EXCEPT ![c] = "died"]
                   /\ UNCHANGED <<alerts_db, stats, pResult>>
              ELSE /\ pPc' = [pPc EXCEPT ![c] = "idle"]
                   /\ alerts_db' = alerts_db \o stored
                   /\ stats' = [stats EXCEPT
                                  !.total_alerts = @ + Len(alerts),
                                  !.peak_count = IF Len(dets) > @ THEN Len(dets) ELSE @,
                                  !.peak_time = IF Len(dets) > stats.peak_count
                                                THEN pTime[c] ELSE @,
                                  !.avg_confidence =
                                      IF detection_confidence # <<>>
                                      THEN Mean(detection_confidence) ELSE @]
                   /\ pResult' = [pResult EXCEPT ![c] =
                                    [count |-> Len(dets), alerts |-> alerts]]
    /\ UNCHANGED <<current_detections, detection_confidence, tracking_history,
                   history_keys, movement_patterns, zone_heatmap, heatmap_keys,
                   db, pDets, pIdx, pTime,
                   frameNo, calls, sumLens, seen, rPc, lastRead, rebuiltAt>>
    /\ AnalyticsFrame

\* --------------------------------------------------------------- cameras
\* what a step of a camera's pipeline leaves alone outside the pipelines
CameraFrame == UNCHANGED <<streamVars, frameVars, rateVars, anaVars>>

\* an initialize_system whose loop ends when a camera cannot be started
EmStart_Aborts(openOk) ==
    /\ initIdx <= Len(CameraList)
    /\ LET c == CameraList[initIdx]
       IN  IF openOk
           THEN /\ em' = [em EXCEPT ![c].cap = "open", ![c].running = TRUE, ![c].pc = "read"]
                /\ emLog' = [emLog EXCEPT ![c] = Append(@, "open_ok")]
                /\ initIdx' = initIdx + 1
           ELSE /\ em' = [em EXCEPT ![c].cap = "failed", ![c].pc = "off"]
                /\ emLog' = [emLog EXCEPT ![c] = Append(@, "open_fail")]
                /\ initIdx' = Len(CameraList) + 1
    /\ CameraFrame

\* initialize_system, lines 420-427, one pass of its loop: the camera's
\* EnhancedStreamManager is made and started (start, lines 199-211; openOk is
\* cap.isOpened()).  A camera that cannot be opened makes start return
\* False, and the loop goes on to the next camera.
EmStart(openOk) ==
    /\ initIdx <= Len(CameraList)
    /\ LET c == CameraList[initIdx]
       IN  IF openOk
           THEN /\ em' = [em EXCEPT ![c].cap = "open", ![c].running = TRUE, ![c].pc = "read"]
                /\ emLog' = [emLog EXCEPT ![c] = Append(@, "open_ok")]
           ELSE /\ em' = [em EXCEPT ![c].cap = "failed", ![c].pc = "off"]
                /\ emLog' = [emLog EXCEPT ![c] = Append(@, "open_fail")]
    /\ initIdx' = initIdx + 1
    /\ CameraFrame

\* _stream_loop, lines 215-221: while self.running, a frame is read; after a
\* failed read the handle is released and made anew, and the loop continues
EmRead(c, ok) ==
    /\ em[c].pc = "read"
    /\ em[c].running
    /\ IF ok
       THEN /\ em[c].reads < MaxCamReads
            /\ em' = [em EXCEPT ![c].reads = @ + 1, ![c].pc = "process"]
            /\ emLog' = [emLog EXCEPT ![c] = Append(@, "read_ok")]
       ELSE /\ em[c].fails < MaxCamFails
            /\ em' = [em EXCEPT ![c].fails = @ + 1, ![c].cap = "reopened"]
            /\ emLog' = [emLog EXCEPT ![c] = Append(@, "read_fail")]
    /\ UNCHANGED initIdx
    /\ CameraFrame

\* line 233: process_frame(frame.copy()), which hands the frame's detections
\* to the aggregator shared by all cameras
EmProcess(c, dets) ==
    /\ em[c].pc = "process"
    /\ frameNo[c] < em[c].reads
    /\ PfdEnter(c, dets, calls, MaxCamReads * Len(CameraList))

\* lines 236-238, after process_frame has returned: the frame is stored
\* under the camera's frame_lock (the emit and the sleep of lines 241-249
\* change nothing here)
EmStore(c) ==
    /\ em[c].pc = "process"
    /\ frameNo[c] = em[c].reads
    /\ pPc[c] = "idle"
    /\ em' = [em EXCEPT ![c].current_frame = em[c].reads, ![c].pc = "read"]
    /\ emLog' = [emLog EXCEPT ![c] = Append(@, "store")]
    /\ UNCHANGED initIdx
    /\ CameraFrame

\* what a read leaves alone
ReadFrame ==
    /\ UNCHANGED <<lock, current_detections, stats, detection_confidence,
                   tracking_history, history_keys, movement_patterns,
                   zone_heatmap, heatmap_keys, db,
                   alerts_db, pPc, pDets, pIdx, pTime, pResult, frameNo, calls,
                   sumLens, seen, rebuiltAt>>
    /\ AnalyticsFrame

\* the record of a read: held is whether it ran under the lock, mid whether
\* a call of process_frame_detections was under way; result is what the
\* read returned, where that is followed
Read(op, value, held) ==
    [op |-> op, value |-> value, held |-> held, mid |-> InCall, result |-> NoResult]

\* get_statistics, lines 354-381, all of it under the lock
GetStatistics ==
    /\ rPc = "idle"
    /\ lock = "free"
    /\ lastRead' = Read("get_statistics", stats.total_detections, TRUE)
    /\ UNCHANGED rPc
    /\ ReadFrame

\* get_historical_data, lines 383-421: queries the tables, takes no lock
GetHistoricalData ==
    /\ rPc = "idle"
    /\ lastRead' = Read("get_historical_data", Len(db), FALSE)
    /\ UNCHANGED rPc
    /\ ReadFrame

\* get_heatmap_data, lines 423-462, under the lock: the display data of a
\* camera
GetHeatmapData(camera_id) ==
    /\ rPc = "idle"
    /\ lock = "free"
    /\ lastRead' = [Read("get_heatmap_data",
                         BagCardinality([cell \in {x \in BagToSet(zone_heatmap) :
                                                     x.camera = camera_id}
                                         |-> zone_heatmap[cell]]),
                         TRUE)
                    EXCEPT !.result =
                        get_heatmap_data(zone_heatmap, heatmap_keys, camera_id)]
    /\ UNCHANGED rPc
    /\ ReadFrame

\* line 468: list(self.tracking_history.keys())[-limit:], a slice from
\* index -limit to the end: the last limit keys for a limit above 0, the
\* whole list for -0, the list without its first -limit keys for a limit
\* below 0
LastKeys(keys, limit) ==
    LET n == Len(keys)
        start == IF limit > 0 THEN (IF n - limit > 0 THEN n - limit ELSE 0)
                 ELSE Min(-limit, n)
    IN  SubSeq(keys, start + 1, n)

\* lines 466-475: the paths returned, track -> list of points, for the
\* tracks of the slice whose history is not empty (the time of a point is
\* kept as the timestamp that isoformat() writes out)
get_tracking_paths(history, keys, limit) ==
    LET chosen == LastKeys(keys, limit)
        ids == {chosen[i] : i \in 1..Len(chosen)}
    IN  [track_id \in {t \in ids : history[t] # <<>>} |->
            [i \in 1..Len(history[track_id]) |->
                [x |-> history[track_id][i][1], y |-> history[track_id][i][2],
                 time |-> history[track_id][i][3]]]]

\* the limits a client asks with (enhanced_dashboard.py, lines 324-328)
Limits == 0..MaxLimit

\* get_tracking_paths, lines 464-475, under the lock
GetTrackingPaths(limit) ==
    /\ rPc = "idle"
    /\ lock = "free"
    /\ lastRead' = [Read("get_tracking_paths",
                         Cardinality({t \in Tracks : tracking_history[t] # <<>>}), TRUE)
                    EXCEPT !.result =
                        [limit |-> limit,
                         paths |-> get_tracking_paths(tracking_history,
                                                      history_keys, limit)]]
    /\ UNCHANGED rPc
    /\ ReadFrame

\* generate_report, line 479: stats = self.get_statistics()
GenerateReportStats ==
    /\ rPc = "idle"
    /\ lock = "free"
    /\ rPc' = "report_hist"
    /\ lastRead' = Read("get_statistics", stats.total_detections, TRUE)
    /\ ReadFrame

\* generate_report, lines 480-494: historical = self.get_historical_data()
GenerateReportHist ==
    /\ rPc = "report_hist"
    /\ rPc' = "idle"
    /\ lastRead' = Read("generate_report", Len(db), FALSE)
    /\ ReadFrame

\* one step of a client reading the aggregator
ReadStep ==
    \/ GetStatistics
    \/ GetHistoricalData
    \/ \E camera_id \in Cameras : GetHeatmapData(camera_id)
    \/ \E limit \in Limits : GetTrackingPaths(limit)
    \/ GenerateReportStats
    \/ GenerateReportHist

\* The dashboard is started again at time now: BisonAnalytics.__init__
\* (lines 22-60) on the database the previous run left, with an empty grid
\* that _rebuild_heatmap_from_db fills from the rows of the last 24 hours.
Restart(now) ==
    /\ ~InCall
    /\ rPc = "idle"
    /\ db # <<>>
    /\ rebuiltAt = -1
    /\ lock' = "free"
    /\ current_detections' = [c \in Cameras |-> <<>>]
    /\ stats' = [total_detections |-> 0, unique_tracks |-> {}, peak_count |-> 0,
                 peak_time |-> -1, avg_confidence |-> <<0, 1>>, total_alerts |-> 0,
                 cameras_active |-> 0]
    /\ detection_confidence' = <<>>
    /\ tracking_history' = [t \in Tracks |-> <<>>]
    /\ movement_patterns' = [t \in Tracks |-> NoMovement]
    /\ history_keys' = <<>>
    /\ zone_heatmap' = RebuildFrom(RecentRows(now), EmptyBag)
    /\ heatmap_keys' = RebuildKeys(RecentRows(now))
    /\ pPc' = [c \in Cameras |-> "idle"]
    /\ pDets' = [c \in Cameras |-> <<>>]
    /\ pIdx' = [c \in Cameras |-> 0]
    /\ pTime' = [c \in Cameras |-> 0]
    /\ pResult' = [c \in Cameras |-> [count |-> -1, alerts |-> <<>>]]
    /\ frameNo' = [c \in Cameras |-> 0]
    /\ sumLens' = 0
    /\ seen' = [t \in Tracks |-> <<>>]
    /\ lastRead' = NoRead
    /\ rebuiltAt' = now
    /\ UNCHANGED <<db, alerts_db, calls, rPc>>
    /\ AnalyticsFrame

\* -------------------------------------------------------- specifications
\* The transcode pipeline with its threads: the main thread starts the
\* stream and stops it, the writer thread feeds the transcoder, the capture
\* thread delivers frames (its reads succeed: the reconnect path, which
\* touches no state of the pipeline, is left to SpecCapture), and the
\* transcoder may exit at any time.
Next ==
    \/ MainStep
    \/ WriterStep
    \/ CaptureFrameStep(MaxFrames)
    \/ ProcExit

Spec == Init /\ [][Next]_vars

\* The same threads with one captured frame, and the writer thread scheduled
\* as long as it can take a step.
NextFair ==
    \/ MainStep
    \/ WriterStep
    \/ CaptureFrameStep(MaxFairFrames)
    \/ ProcExit

FairSpec == Init /\ [][NextFair]_vars /\ WF_vars(WriterStep)

\* The capture loop with failing reads and re-opens, the main thread
\* starting and stopping the stream around it.
NextCapture ==
    \/ MainStep
    \/ CaptureStep(MaxFrames)
    \/ ProcExit

SpecCapture == Init /\ [][NextCapture]_vars

\* The same with every rate a source may report, and with an HLSManager
\* that a caller constructs directly.
NextRate ==
    \/ \E rate \in Rates, onPath \in BOOLEAN : HlsInit(rate, onPath)
    \/ NextCapture

SpecRate == InitRate /\ [][NextRate]_vars

\* The capture loop feeding the queue and the writer draining it, while the
\* pipeline runs.
StartOk == StartStream(TRUE, TRUE, TRUE)

NextQueue ==
    \/ StartOk
    \/ CaptureFrameStep(MaxQueueFrames)
    \/ WriterLoopStep

SpecQueue == Init /\ [][NextQueue]_vars

\* requests for artifacts, before and after the stream is started
NextPath ==
    \/ \E openOk, onPath, spawnOk \in BOOLEAN : StartStream(openOk, onPath, spawnOk)
    \/ \E readOk \in BOOLEAN : ServeHlsFile(readOk)

SpecPath == InitPath /\ [][NextPath]_vars

\* The capture loop storing frames while readers fetch the latest one.
NextFrames ==
    \/ \E openOk, onPath, spawnOk \in BOOLEAN : StartStream(openOk, onPath, spawnOk)
    \/ CaptureStep(MaxFrames)
    \/ GetCurrentFrameStep

SpecFrames == Init /\ [][NextFrames]_vars

\* The capture loop, reads failing or not, with the main thread stopping the
\* stream at any point; the capture thread is scheduled as long as it can
\* take a step.
NextStopping ==
    \/ MainStep
    \/ CaptureStepWithin(MaxFrames)
    \/ ProcExit

SpecStopping ==
    Init /\ [][NextStopping]_vars /\ WF_vars(CaptureStepWithin(MaxFrames))

\* readings of the clock (datetime.now(), which may stand still or step back)
Times == 0..MaxTime

\* Frames the cameras deliver: none, one animal, one animal detected twice
\* in a frame, an animal with a poor detection of something untracked.
SmallFrames ==
    { << >>,
      << Detection(1, 90, 100, 100) >>,
      << Detection(1, 90, 160, 100), Detection(1, 90, 100, 180) >>,
      << Detection(2, 20, 100, 100), Detection(NoTrack, 20, 100, 180) >> }

\* one step of a camera's thread inside process_frame_detections
PfdStep ==
    \/ \E c \in Cameras, storeOk \in BOOLEAN : PfdDetection(c, storeOk)
    \/ \E c \in Cameras, alertOk \in BOOLEAN : PfdFinish(c, alertOk)

\* The aggregator with the cameras' threads feeding it and a client reading
\* it, the history store failing or not.
NextAnalytics ==
    \/ \E c \in Cameras, dets \in SmallFrames, now \in Times :
           PfdEnter(c, dets, now, MaxCalls)
    \/ PfdStep
    \/ ReadStep

SpecAnalytics == Init /\ [][NextAnalytics]_vars

\* The aggregator following tracks over more frames, without readers.
NextMovement ==
    \/ \E c \in Cameras, dets \in SmallFrames, now \in Times :
           PfdEnter(c, dets, now, MaxMoveCalls)
    \/ PfdStep

SpecMovement == Init /\ [][NextMovement]_vars

\* One camera seeing one animal three times in frame after frame, the
\* frames a second apart.
TrackFrame ==
    << Detection(1, 90, 100, 100), Detection(1, 90, 160, 100),
       Detection(1, 90, 100, 180) >>

NextTrack ==
    \/ /\ Len(seen[1]) < MaxSightings
       /\ PfdEnter("cam1", TrackFrame, calls, calls + 1)
    \/ PfdDetection("cam1", TRUE)
    \/ PfdFinish("cam1", TRUE)

SpecTrack == Init /\ [][NextTrack]_vars

\* Frames at the edges of what a detection can carry: track id 0, no
\* confidence, a mean confidence of exactly 0.3, and plain ones to compare
EdgeFrames ==
    { << >>,
      << Detection(0, 90, 100, 100) >>,
      << Detection(1, 90, 100, 100) >>,
      << Detection(NoTrack, 20, 100, 100), Detection(NoTrack, 40, 100, 180) >>,
      << Detection(NoTrack, NoConfidence, 100, 100), Detection(2, 50, 100, 180) >>,
      << Detection(NoTrack, 20, 100, 100) >> }

\* The aggregator fed such frames.
NextEdge ==
    \/ \E c \in Cameras, dets \in EdgeFrames : PfdEnter(c, dets, calls, MaxEdgeCalls)
    \/ PfdStep

SpecEdge == Init /\ [][NextEdge]_vars

\* a frame of n detections of untracked animals
Crowd(n) == [i \in 1..n |-> Detection(NoTrack, 90, 100, 100)]

\* the frames a camera of the dashboard delivers: nothing, or one animal
CameraFrames == { << >>, << Detection(1, 90, 100, 100) >> }

\* The dashboard's cameras, each with its own pipeline and thread, feeding
\* the one aggregator; opening, reading and persisting may fail.
NextCameras ==
    \/ \E openOk \in BOOLEAN : EmStart(openOk)
    \/ \E c \in Cameras, ok \in BOOLEAN : EmRead(c, ok)
    \/ \E c \in Cameras, dets \in CameraFrames : EmProcess(c, dets)
    \/ PfdStep
    \/ \E c \in Cameras : EmStore(c)

SpecCameras == Init /\ [][NextCameras]_vars

\* a frame of n detections: one followed animal at (cx, 100) among untracked
\* ones
Scenario(n, cx) == << Detection(1, 90, cx, 100) >> \o Crowd(n - 1)

\* The frames of the alert scenarios: five animals with the followed one
\* standing, moving slowly or moving fast from frame to frame, and fifteen
\* animals with the followed one moving slowly.
ScenarioFrames ==
    { Scenario(5, 100), Scenario(5, 110), Scenario(5, 160),
      Scenario(CrowdDetection, 110) }

\* The aggregator fed the scenarios' frames a second apart.
NextScenario ==
    \/ \E c \in Cameras, dets \in ScenarioFrames :
           PfdEnter(c, dets, calls, MaxScenarioCalls)
    \/ PfdStep

SpecScenario == Init /\ [][NextScenario]_vars

\* Frames around the high activity threshold: empty, one animal, 10, 11
\* and 12 animals.
CrowdFrames ==
    { Crowd(n) : n \in {0, 1, HighActivity, HighActivity + 1, MaxCrowd} }

\* The aggregator receiving crowded frames, the history store failing or
\* not.
NextAlerts ==
    \/ \E c \in Cameras, dets \in CrowdFrames, now \in Times :
           PfdEnter(c, dets, now, MaxAlertCalls)
    \/ PfdStep

SpecAlerts == Init /\ [][NextAlerts]_vars

\* the frames above and one with a box far outside the picture
HeatFrames == SmallFrames \cup { << Detection(NoTrack, 90, -3000, 100) >> }

\* when the dashboard is started again: at once, or more than a day later
RestartTimes == Times \cup {DaySeconds + 1}

\* The aggregator persisting detections, and the dashboard being started
\* again on the database they were persisted to.
NextHeatmap ==
    \/ \E c \in Cameras, dets \in HeatFrames, now \in Times :
           PfdEnter(c, dets, now, MaxHeatCalls)
    \/ PfdStep
    \/ \E now \in RestartTimes : Restart(now)

SpecHeatmap == Init /\ [][NextHeatmap]_vars

\* The same with a client asking for the display data of the cameras.
NextDisplay ==
    \/ NextHeatmap
    \/ \E camera_id \in Cameras : GetHeatmapData(camera_id)

SpecDisplay == Init /\ [][NextDisplay]_vars

\* ================================================================= claims

\* ----------------------------------------------------------------- C1
\* C1: under every interleaving of write_frame with the writer's pops the
\* frame queue never holds more than 60 frames; write_frame on a full queue
\* does not block (its put step is enabled and ends the call), drops the
\* submitted frame and leaves the 60 queued frames unchanged.
C1_QueueBounded ==
    /\ [](Len(frame_q) <= QueueMaxsize)
    /\ [](capPc = "wf_put" => ENABLED WriteFramePut)
    /\ [][(capPc = "wf_put" /\ capPc' # "wf_put" /\ Len(frame_q) = QueueMaxsize)
            => (frame_q' = frame_q /\ capPc' = "count")]_vars

\* the queue is full and the frame just submitted is not in it
C1_Witness ==
    /\ Len(frame_q) = QueueMaxsize
    /\ capPc = "count"
    /\ \A i \in 1..Len(frame_q) : frame_q[i] # frame_count

\* ----------------------------------------------------------------- C2
\* a path lies inside a directory: it is the directory or below it
Inside(path, dir) ==
    \/ path = dir
    \/ StartsWith(path, dir \o <<"/">>)

\* a name that is one plain component: no slash, not "." or ".."
PlainName(name) ==
    /\ name # <<>>
    /\ name # <<".">>
    /\ name # DotDot
    /\ \A i \in 1..Len(name) : name[i] # "/"

\* C2 (as claimed): resolve_path returns None or a path inside the private
\* output directory; a name whose normalised resolution escapes the
\* directory yields None; an exact in-directory name yields its path.
C2_ResolveInsideOrNone ==
    served =>
        /\ resolved = NoPath \/ Inside(resolved, tmpdir)
        /\ ~Inside(normpath(pathjoin(tmpdir, reqName)), tmpdir) => resolved = NoPath
        /\ (tmpdir # NoPath /\ PlainName(reqName))
              => resolved = tmpdir \o <<"/">> \o reqName

\* ----------------------------------------------------------------- C3
\* C3 (as claimed): writing to the transcoder's input pipe and closing it
\* are mutually exclusive: the writer never has a write in progress on a
\* pipe that is closed under it, and never calls write on a closed pipe.
C3_WriteCloseExclusive ==
    /\ wPc = "w_writing" => stdinState = "open"
    /\ (wPc = "w_write" /\ proc # None) => stdinState = "open"

\* ----------------------------------------------------------------- C4
\* C4 (as claimed): under every interleaving with the writer thread, every
\* HLSManager.stop returns without raising, and once it is over the
\* pipeline holds no process handle and its private directory is deleted.
C4_StopReleases ==
    /\ \A i \in 1..Len(stopLog) : stopLog[i] = "returned"
    /\ (mPc = "stopped" /\ stopLog # <<>>) =>
          (proc = None /\ tmpdir = NoPath /\ ~dirExists)

\* ----------------------------------------------------------------- C5
\* the main thread is between two calls of stop, or after the last
AfterStop(n) == mPc = "stopped" /\ Len(stopLog) >= n

\* C5 (as claimed): a second stop, and a stop of a pipeline whose start
\* failed, does not raise and leaves the stopped state: running flag false,
\* no process handle, no private directory, empty queue.
C5_StopIdempotent ==
    /\ \A i \in 2..Len(stopLog) : stopLog[i] = "returned"
    /\ (hls_ok = "False") => \A i \in 1..Len(stopLog) : stopLog[i] = "returned"
    /\ (AfterStop(2) \/ (AfterStop(1) /\ hls_ok = "False")) =>
          /\ ~running
          /\ proc = None
          /\ tmpdir = NoPath
          /\ ~dirExists
          /\ frame_q = <<>>

\* C5 (amended): a second stop, and a stop of a pipeline whose start failed,
\* does not raise and leaves running false, no process handle and no
\* private directory; the queue is empty but for at most one frame, the
\* capture loop's current one, put by a write_frame call that had passed
\* its running check before stop cleared the flag.
C5_StopIdempotentButLatePut ==
    /\ \A i \in 2..Len(stopLog) : stopLog[i] = "returned"
    /\ (hls_ok = "False") => \A i \in 1..Len(stopLog) : stopLog[i] = "returned"
    /\ (AfterStop(2) \/ (AfterStop(1) /\ hls_ok = "False")) =>
          /\ ~running
          /\ proc = None
          /\ tmpdir = NoPath
          /\ ~dirExists
          /\ frame_q = <<>> \/ (frame_q = <<frame_count>> /\ hls_ok = "True"
                                /\ capPc \in {"count", "head", "read", "exit"})

\* a second stop is over, after a first one that raised, and a late put has
\* left a frame in the queue
C5_Witness ==
    /\ AfterStop(2)
    /\ stopLog[1] = "raised"
    /\ stopLog[2] = "returned"
    /\ frame_q = <<2>>

\* ----------------------------------------------------------------- C6
\* thread t is inside _close_proc
Closing(t) == cpc[t] \notin {"idle", "returned", "raised"}

\* steps thread t has left at most before _close_proc is over
Rank(t) ==
    CASE cpc[t] = "c186" -> 25 + FlushPolls + TermPolls
      [] cpc[t] = "c188" -> 24 + FlushPolls + TermPolls
      [] cpc[t] = "c190" -> 23 + FlushPolls + TermPolls
      [] cpc[t] = "c199" -> 21 + (FlushPolls - ci[t]) + TermPolls
      [] cpc[t] = "c202" -> 21 + TermPolls
      [] cpc[t] = "c204" -> 20 + TermPolls
      [] cpc[t] = "c207" -> 19 + (TermPolls - ci[t])
      [] cpc[t] = "c211" -> 19
      [] cpc[t] = "c213" -> 18
      [] cpc[t] \in {"c217", "c_raise"} -> 17
      [] OTHER -> 0

\* C6: closing the transcoder goes in this order: the input pipe is closed;
\* the process is polled a bounded number of times; terminate is sent only
\* by a thread that has just polled it running; after a second bounded
\* wait kill is sent only by a thread that has just polled it running and
\* has sent terminate before.  Every step of _close_proc is enabled and
\* lowers the rank, so the sequence ends within a bounded number of steps,
\* and when it is over the process handle is released.
C6_ShutdownOrder ==
    /\ [](\A i \in 1..Len(sigSeq) :
            /\ sigSeq[i].seen = "running"
            /\ sigSeq[i].stdin = "closed"
            /\ sigSeq[i].sig = "kill" =>
                  \E j \in 1..(i - 1) : /\ sigSeq[j].sig = "term"
                                        /\ sigSeq[j].by = sigSeq[i].by)
    /\ [](\A t \in Closers :
            /\ cpc[t] \in {"c199", "c202", "c204", "c207", "c211", "c213", "c217"}
                 => stdinState = "closed"
            /\ cpc[t] = "c199" => ci[t] < FlushPolls
            /\ cpc[t] = "c207" => ci[t] < TermPolls
            /\ cpc[t] \in {"returned", "raised"} => proc = None
            /\ Closing(t) => ENABLED CloseStep(t))
    /\ [][\A t \in Closers :
            (Closing(t) /\ <<cpc[t], ci[t]>> # <<cpc'[t], ci'[t]>>)
                => Rank(t)' < Rank(t)]_vars

\* stop has gone through the whole sequence: terminate, then kill, and the
\* handle is released
C6_Witness ==
    /\ Len(sigSeq) >= 2
    /\ sigSeq[1] = [by |-> "main", sig |-> "term", seen |-> "running", stdin |-> "closed"]
    /\ sigSeq[2] = [by |-> "main", sig |-> "kill", seen |-> "running", stdin |-> "closed"]
    /\ cpc["main"] = "returned"
    /\ proc = None

C8_DisabledPipeline ==
    (hls # None /\ ~enabled) =>
        /\ hls_ok = "False"
        /\ wPc = "idle"
        /\ ~running
        /\ proc = None
        /\ capPc # "wf_put"
        /\ frame_q = <<>>
        /\ capPc = "store" => ENABLED CapStore
        /\ capPc \notin {"idle", "store"} => current_frame = frame_count

\* the transcoder could not be spawned and the loop has stored two frames
C8_Witness ==
    /\ hls_ok = "False"
    /\ tmpdir # NoPath
    /\ current_frame = 2
    /\ capPc = "count"

\* ----------------------------------------------------------------- C9
\* C9: after a write to the pipe has raised, the writer has left its loop,
\* begins no other write, and when it has ended the process handle is
\* released; the capture loop is not affected: until stop is called it stays
\* in its loop, can take its next step, and stores every frame it reads.
C9_WriteFailureStopsWorker ==
    /\ writesAfterFail = 0
    /\ writeFailed => wPc \in {"w_close", "w_in_close", "done", "died"}
    /\ (writeFailed /\ wPc \in {"done", "died"}) => proc = None
    /\ (writeFailed /\ mPc = "serving") =>
          /\ sm_running
          /\ capPc \notin {"idle", "exit"}
          /\ capPc # "read" => ENABLED CaptureFrameStep(MaxFrames)
          /\ capPc # "store" => current_frame = frame_count

\* a write has raised, the writer has ended, and the capture loop is about
\* to store the next frame
C9_Witness ==
    /\ writeFailed
    /\ wPc = "done"
    /\ mPc = "serving"
    /\ capPc = "store"
    /\ frame_count = 2

\* ---------------------------------------------------------------- C10
\* C10: a failed read is followed by releasing the handle, the wait and
\* re-opening the same url, whatever the re-open gives; none of these steps
\* can block, none changes latest frame or the frame counters, and the loop
\* exits only when the running flag is cleared.
C10_ReconnectForever ==
    /\ [](capPc = "exit" => ~sm_running)
    /\ [](capPc \in {"release", "sleep", "reopen"}
            => ENABLED CaptureReconnectStep(MaxFrames))
    /\ [][/\ (capPc = "read" /\ fails' # fails) => capPc' = "release"
          /\ (capPc = "release" /\ capPc' # capPc)
                => (capPc' = "sleep" /\ cap' = "released")
          /\ (capPc = "sleep" /\ capPc' # capPc) => capPc' = "reopen"
          /\ (capPc = "reopen" /\ capPc' # capPc)
                => (capPc' = "head" /\ capUrl' = RtspUrl /\ cap' \in {"open", "failed"})
          /\ (capPc \in {"release", "sleep", "reopen"} \/ fails' # fails)
                => UNCHANGED <<current_frame, frame_count, total_frames>>]_vars

\* two failed reads in a row, the re-open between them failed too, and the
\* loop is still running
C10_Witness ==
    /\ fails = 2
    /\ frame_count = 1
    /\ current_frame = 1
    /\ cap = "failed"
    /\ capPc = "read"
    /\ sm_running

\* ---------------------------------------------------------------- C11
\* C11: latest frame changes only in the capture loop's store, which waits
\* for the frame lock; a call of get_current_frame returns None when no frame
\* was stored when it took the lock, and otherwise a new object holding the
\* frame stored at that moment, an object that is neither the stored one nor
\* the loop's own frame nor one handed to another reader.
C11_ReadersGetCopies ==
    /\ [][current_frame' # current_frame
            => capPc = "store" /\ frame_lock = "free" /\ current_frame' = frame_count]_vars
    /\ [](\A r \in Readers :
            /\ gPc[r] # "locked" => gVal[r] = gSeen[r]
            /\ gPc[r] = "copied" => (gObj[r] = NoneObj <=> gSeen[r] = 0)
            /\ gObj[r] # NoneObj =>
                   /\ gObj[r] \notin {CurrentFrameObj, LocalFrameObj}
                   /\ \A r2 \in Readers \ {r} : gObj[r2] # gObj[r])

\* both readers hold a copy of a stored frame while the loop is storing the
\* next one, and one of them had got None before
C11_Witness ==
    /\ gObj["r1"] # NoneObj
    /\ gObj["r2"] # NoneObj
    /\ gVal["r1"] = 1
    /\ gVal["r2"] = 1
    /\ gCalls["r1"] = 2
    /\ capPc = "store"
    /\ frame_count = 2

\* ---------------------------------------------------------------- C12
\* C12: once stop has cleared the running flag, the capture loop starts no
\* iteration (its loop head leads to the exit only), the iteration under way
\* is completed (at the exit the stored frame and the published count are
\* those of the last frame read), and the loop reaches its exit, wherever
\* it was when the flag was cleared.
C12_LoopExitsAtBoundary ==
    /\ [][(~sm_running /\ capPc = "head" /\ capPc' # capPc) => capPc' = "exit"]_vars
    /\ [](capPc = "exit" =>
            /\ total_frames = frame_count
            /\ frame_count > 0 => current_frame = frame_count)
    /\ (~sm_running /\ capPc # "idle") ~> (capPc = "exit")

\* the loop has left after a stop that came while it was reconnecting: it
\* holds a handle opened after stop released the old one
C12_Witness ==
    /\ capPc = "exit"
    /\ stops >= 1
    /\ fails >= 1
    /\ cap = "open"
    /\ frame_count >= 1

\* ---------------------------------------------------------------- C13
\* start_stream was called and raised instead of returning
StartRaised == mPc # "init" /\ hls_ok = "none"

\* C13: when the source cannot be opened, start_stream raises and nothing
\* is started, then or later: the running flag is false, the capture thread
\* and the writer thread do not run, and no pipeline, process or private
\* directory exists.
C13_FailedOpenStartsNothing ==
    StartRaised =>
        /\ ~sm_running
        /\ capPc = "idle"
        /\ hls = None
        /\ ~running
        /\ wPc = "idle"
        /\ proc = None
        /\ procState = "none"
        /\ tmpdir = NoPath
        /\ frame_count = 0
        /\ current_frame = 0

\* start_stream has raised and main's cleanup has called stop
C13_Witness ==
    /\ StartRaised
    /\ cap = "released"
    /\ stops = 1
    /\ mPc = "stopped"

\* ---------------------------------------------------------------- C14
\* C14: a failed write to the history store does not interrupt a camera:
\* its call of process_frame_detections returns and its loop goes on, so no
\* camera thread is ever ended by an exception from the call.
C14_StoreFailureNotFatal == \A c \in Cameras : pPc[c] # "died"

\* ---------------------------------------------------------------- C15
\* C15: total_detections is the sum of the lengths of the detection lists
\* passed to process_frame_detections so far, whichever cameras passed them
\* and whatever became of the calls, and it changes only where a call is
\* entered.
C15_TotalIsSumOfLengths ==
    /\ [](stats.total_detections = sumLens)
    /\ [][stats.total_detections' # stats.total_detections
            => \E c \in Cameras : pPc[c] = "idle" /\ pPc'[c] \in {"loop", "alerts"}]_vars

\* both cameras have passed a frame of two detections, and a client has read
\* the total
C15_Witness ==
    /\ frameNo["cam1"] = 1
    /\ frameNo["cam2"] = 1
    /\ stats.total_detections = 4
    /\ lastRead.op = "get_statistics"
    /\ lastRead.value = 4

\* ---------------------------------------------------------------- C16
\* C16: every read of the aggregator runs under the aggregator lock and
\* sees the state between two whole calls of process_frame_detections.
C16_ReadsSerialised ==
    lastRead.op # "none" => lastRead.held /\ ~lastRead.mid

\* ---------------------------------------------------------------- C17
\* the last n elements of a sequence
LastN(seq, n) == SubSeq(seq, Len(seq) - Min(Len(seq), n) + 1, Len(seq))

\* C17: the position history of every track holds at most 1000 entries, and
\* they are the track's latest sightings in the order they arrived.
C17_HistoryCapped ==
    \A t \in Tracks :
        /\ Len(tracking_history[t]) <= HistoryMaxlen
        /\ tracking_history[t] = LastN(seen[t], HistoryMaxlen)

\* the track was sighted 1002 times: the history starts at the third
C17_Witness ==
    /\ Len(seen[1]) = HistoryMaxlen + 2
    /\ Len(tracking_history[1]) = HistoryMaxlen
    /\ tracking_history[1][1] = seen[1][3]
    /\ seen[1][3] # seen[1][1]

\* ---------------------------------------------------------------- C18
\* the high_activity alerts among the alerts a call returned
HighAlerts(result) ==
    SelectSeq(result.alerts, LAMBDA a : a.type = "high_activity")

AllSkipped(t) ==
    \A i \in 1..(Len(seen[t]) - 1) : seen[t][i + 1][3] - seen[t][i][3] <= 0

\* a position is appended to the history of t no later than its last one
SkippedUpdate(t) ==
    /\ tracking_history[t] # << >>
    /\ Len(tracking_history'[t]) = Len(tracking_history[t]) + 1
    /\ tracking_history'[t][Len(tracking_history'[t])][3]
          - tracking_history[t][Len(tracking_history[t])][3] <= 0

\* C19: when no time (or negative time) has passed since a track's previous
\* position, its movement record (speed, total distance, direction) stays as
\* it was; a track all of whose updates were skipped has no movement record
\* and no returned alert is a rapid_movement alert for it.
C19_ZeroElapsedSkipsSpeed ==
    /\ [][\A t \in Tracks :
            SkippedUpdate(t) => movement_patterns'[t] = movement_patterns[t]]_vars
    /\ [](\A t \in Tracks :
            AllSkipped(t) =>
               /\ ~movement_patterns[t].set
               /\ \A c \in Cameras : \A i \in 1..Len(pResult[c].alerts) :
                      ~(pResult[c].alerts[i].type = "rapid_movement"
                        /\ pResult[c].alerts[i].track_id = t))

\* track 1 moved fast, was then seen again in the same instant and kept its
\* speed; track 2 was seen twice in one instant and has no movement record
C19_Witness ==
    /\ Len(seen[1]) = 3
    /\ seen[1][3][3] = seen[1][2][3]
    /\ movement_patterns[1].set
    /\ movement_patterns[1].current_speed > RapidMovement
    /\ movement_patterns[1].total_distance = 60
    /\ \E c \in Cameras : pResult[c].count = 2 /\ Len(pResult[c].alerts) = 1

\* ---------------------------------------------------------------- C20
\* a box inside the 1920 by 1080 picture
ValidBox(b) ==
    /\ 0 <= b[1] /\ b[1] <= b[3] /\ b[3] <= FrameWidth
    /\ 0 <= b[2] /\ b[2] <= b[4] /\ b[4] <= FrameHeight

\* every persisted detection has a valid box and is less than a day old
\* when the heatmap is rebuilt
AllCountable ==
    \A i \in 1..Len(db) :
        ValidBox(db[i].bbox) /\ db[i].timestamp > rebuiltAt - DaySeconds

\* the sum of the cells of a camera's grid
GridTotal(c) ==
    BagCardinality([cell \in {x \in BagToSet(zone_heatmap) : x.camera = c}
                    |-> zone_heatmap[cell]])

\* C20: when the heatmap has been rebuilt on an empty grid from N persisted
\* detections, all with valid boxes and of the last 24 hours, the cells sum
\* to N, and the grid of each camera sums to the number of that camera's
\* detections.
C20_RebuildCountsAll ==
    (rebuiltAt >= 0 /\ AllCountable) =>
        /\ BagCardinality(zone_heatmap) = Len(db)
        /\ \A c \in Cameras :
              GridTotal(c) = Len(SelectSeq(db, LAMBDA row : row.camera_id = c))

\* the heatmap was rebuilt from four detections of two cameras, one of them
\* of an untracked animal
C20_Witness ==
    /\ rebuiltAt >= 0
    /\ AllCountable
    /\ Len(db) = 4
    /\ GridTotal("cam1") = 2
    /\ GridTotal("cam2") = 2
    /\ \E i \in 1..Len(db) : db[i].track_id = NoTrack

\* ---------------------------------------------------------------- C21
\* C21: downsampling is additive. However the updates that built the grid
\* are split into two parts, the display grid of the whole grid is, cell by
\* cell, the sum of the display grids of the grids built from the parts.
C21_DownsampleAdditive ==
    \A c \in Cameras : \A part \in SubBag(zone_heatmap) :
        aggregated_heatmap(zone_heatmap, c) =
            aggregated_heatmap(part, c) (+) aggregated_heatmap(zone_heatmap (-) part, c)

\* two different cells of a camera's grid fall into one display cell, which
\* holds the sum of their counts
C21_Witness ==
    \E x, y \in BagToSet(zone_heatmap) :
        /\ x # y
        /\ x.camera = y.camera
        /\ AggCell(x) = AggCell(y)
        /\ aggregated_heatmap(zone_heatmap, x.camera)[AggCell(x)]
               = zone_heatmap[x] + zone_heatmap[y]

\* ---------------------------------------------------------------- C22
\* a request is handled by an enabled pipeline, and its name resolves to a
\* path inside the private directory at which nothing exists
ServesMissing ==
    /\ ~served /\ served'
    /\ hls # None /\ enabled
    /\ Inside(normpath(pathjoin(tmpdir, reqName)), tmpdir)
    /\ ~exists(normpath(pathjoin(tmpdir, reqName)))

\* C22 (as claimed): resolve_path returns None for a name that lies inside
\* the private output directory but names no existing artifact.
C22_MissingResolvesNone ==
    [][ServesMissing => resolved' = NoPath]_vars

\* C22 (amended): for a name that lies inside the private output directory
\* but names no existing artifact, resolve_path returns the normalised path
\* all the same, and it is serve_hls_file that answers 404.
C22_MissingResolvesButNotFound ==
    [][ServesMissing =>
          /\ resolved' = normpath(pathjoin(tmpdir, reqName))
          /\ status' = "404"]_vars

\* a request for a name inside the directory at which no file exists was
\* resolved to its path and answered with 404
C22_Witness ==
    /\ served
    /\ status = "404"
    /\ resolved # NoPath
    /\ resolved # tmpdir
    /\ Inside(resolved, tmpdir)
    /\ ~exists(resolved)

\* ---------------------------------------------------------------- C23
\* C23 (as claimed): every alert process_frame_detections returns (high
\* activity, low confidence or rapid movement) is in the alerts table when
\* the call returns, so between calls the number of persisted alerts equals
\* the total_alerts statistic.
C23_AlertsPersisted ==
    ~InCall =>
        /\ Len(alerts_db) = stats.total_alerts
        /\ \A c \in Cameras : \A i \in 1..Len(pResult[c].alerts) :
               \E j \in 1..Len(alerts_db) : alerts_db[j] = pResult[c].alerts[i]

\* ---------------------------------------------------------------- C24
\* every call made so far has returned
AllReturned == \A c \in Cameras : pPc[c] = "idle"

\* C24 (as claimed): a call increments the camera's grid once for every
\* detection of the frame, so that between calls the sum of a camera's grid is the number of detections
\* recorded for it (none were rebuilt at startup here); and no cell is ever
\* decreased or reset.
C24_GridCountsDetections ==
    /\ [](AllReturned =>
            \A c \in Cameras :
                GridTotal(c) = Len(SelectSeq(db, LAMBDA row : row.camera_id = c)))
    /\ [][\A cell \in BagToSet(zone_heatmap) :
              /\ BagIn(cell, zone_heatmap')
              /\ zone_heatmap'[cell] >= zone_heatmap[cell]]_vars

\* ---------------------------------------------------------------- C25
\* the rapid movement alerts for a track in a result
RapidAlerts(result, t) ==
    SelectSeq(result.alerts,
              LAMBDA a : a.type = "rapid_movement" /\ a.track_id = t)

\* the speed movement_patterns holds for a track (0 without an entry)
CurrentSpeed(t) ==
    IF movement_patterns[t].set THEN movement_patterns[t].current_speed ELSE 0

LowAlerts(result) ==
    SelectSeq(result.alerts, LAMBDA a : a.type = "low_confidence")

\* the sum of the confidences of a frame, a detection without one counting 0
RECURSIVE ConfidenceTotal(_)
ConfidenceTotal(dets) ==
    IF dets = << >> THEN 0
    ELSE (IF Head(dets).confidence = NoConfidence THEN 0 ELSE Head(dets).confidence)
             + ConfidenceTotal(Tail(dets))

\* C26: a call that returns gives one low confidence alert, of severity
\* info, exactly when the frame has at least one detection and the mean of
\* its confidences (a detection without one counting 0) is below the low
\* confidence threshold; an empty frame gives none.
C26_LowConfidenceAlert ==
    [][\A c \in Cameras :
          (pPc[c] = "alerts" /\ pPc'[c] = "idle") =>
              IF pDets[c] # << >>
                 /\ ConfidenceTotal(pDets[c]) < LowConfidence * Len(pDets[c])
              THEN /\ Len(LowAlerts(pResult'[c])) = 1
                   /\ LowAlerts(pResult'[c])[1].severity = "info"
                   /\ LowAlerts(pResult'[c])[1].camera_id = c
              ELSE LowAlerts(pResult'[c]) = << >>]_vars

\* a call for a frame with a detection without a confidence, whose other
\* confidence alone is above the threshold, has returned the alert
C26_Witness ==
    \E c \in Cameras :
        /\ pPc[c] = "idle"
        /\ \E i \in 1..Len(pDets[c]) : pDets[c][i].confidence = NoConfidence
        /\ \E i \in 1..Len(pDets[c]) : pDets[c][i].confidence > LowConfidence
        /\ Len(LowAlerts(pResult[c])) = 1

\* ---------------------------------------------------------------- C29
\* a result holds an alert of a type and a severity
HasAlert(result, type, severity) ==
    \E i \in 1..Len(result.alerts) :
        result.alerts[i].type = type /\ result.alerts[i].severity = severity

\* C29 (as claimed): alert evaluation yields a rapid_movement alert of
\* severity high when the speed is above the rapid movement threshold, a
\* crowding alert of severity medium when the count reaches the crowd
\* threshold of 15 at normal speed, and no alert at all when speed and count
\* are both below their thresholds.
C29_AlertScenarios ==
    [][\A c \in Cameras :
          (pPc[c] = "alerts" /\ pPc'[c] = "idle") =>
              LET fast == \E t \in Tracks : CurrentSpeed(t) > RapidMovement
                  count == Len(pDets[c])
              IN  /\ fast => HasAlert(pResult'[c], "rapid_movement", "high")
                  /\ (~fast /\ count >= CrowdDetection)
                         => HasAlert(pResult'[c], "crowding", "medium")
                  /\ (~fast /\ count < CrowdDetection)
                         => pResult'[c].alerts = << >>]_vars

\* ---------------------------------------------------------------- C30
\* C30 (as claimed): a detection with track id 0 is treated like any other
\* tracked detection: after a call for a frame with one, 0 is among the
\* unique tracks, track 0 has a history and the camera's heatmap has been
\* updated.
C30_TrackZeroTracked ==
    \A c \in Cameras :
        (pPc[c] = "idle" /\ \E i \in 1..Len(pDets[c]) : pDets[c][i].track_id = 0) =>
            /\ 0 \in stats.unique_tracks
            /\ tracking_history[0] # << >>
            /\ GridTotal(c) >= 1

Pipeline(c) == << em[c], frameNo[c], pPc[c] >>

C31_SameMapping ==
    /\ [](\A i \in 1..Len(db) :
             ValidBox(db[i].bbox) =>
                 UpdateCell(db[i].camera_id, db[i].bbox) = RebuildCell(db[i]))
    /\ [][(rebuiltAt = -1 /\ rebuiltAt' >= 0 /\ RecentRows(rebuiltAt') = db)
             => zone_heatmap' = zone_heatmap]_vars

\* ---------------------------------------------------------------- C32
\* C32 (as claimed): once stop() has been called on an ingestor and its
\* capture loop has exited, no capture connection handle is left open,
\* whatever the interleaving of stop() with the loop's reconnect after a
\* failed read.
C32_NoHandleLeftOpen ==
    (stops >= 1 /\ mPc = "stopped" /\ capPc = "exit") => openHandles = 0

\* ---------------------------------------------------------------- C33
\* the frames waiting in the queue, oldest first, are in capture order
InCaptureOrder(q) == \A i, j \in 1..Len(q) : i < j => q[i] < q[j]

\* the worker holds a frame it took from the queue and has not written yet
HoldsFrame == wPc \in {"w_lock", "w_check", "w_check2", "w_write", "w_writing"}

\* C33 (as claimed): frames reach the transcoder's pipe in capture order.
\* Frames are numbered as they are captured, so: the queue is in capture
\* order, every frame in it and the frame the worker holds were submitted
\* and are later than the last frame written, and every write puts a later
\* frame on the pipe than the one before (nothing reordered, nothing twice).
C33_CaptureOrder ==
    /\ [](/\ InCaptureOrder(frame_q)
          /\ \A i \in 1..Len(frame_q) :
                 lastWritten < frame_q[i] /\ frame_q[i] <= frame_count
          /\ HoldsFrame =>
                 /\ lastWritten < wFrame /\ wFrame <= frame_count
                 /\ \A i \in 1..Len(frame_q) : wFrame < frame_q[i])
    /\ [][(wPc = "w_writing" /\ wPc' # "w_writing" /\ writeFailed' = writeFailed)
              => (lastWritten' = wFrame /\ lastWritten' > lastWritten)]_vars

\* two frames were captured and both were written
C33_Witness == lastWritten = 2 /\ frame_count = 2 /\ wPc = "w_running"

\* ---------------------------------------------------------------- C34
\* camera c's call has stored the detection it was at and goes on
Stored(c) == pPc[c] = "loop" /\ pIdx'[c] = pIdx[c] + 1

\* each stored detection adds one row, with the call's camera_id and
\* frame_number and the detection's own fields, and nothing else changes the
\* rows
OneRowPerDetection ==
    /\ [][\A c \in Cameras :
              Stored(c) =>
                  LET d == pDets[c][pIdx[c]]
                  IN  /\ Len(db') = Len(db) + 1
                      /\ SubSeq(db', 1, Len(db)) = db
                      /\ db'[Len(db')].camera_id = c
                      /\ db'[Len(db')].frame_number = frameNo[c]
                      /\ db'[Len(db')].track_id = d.track_id
                      /\ db'[Len(db')].confidence = d.confidence
                      /\ db'[Len(db')].bbox = d.bbox]_vars
    /\ [][db' # db => \E c \in Cameras : Stored(c)]_vars

\* C34 (as claimed): process_frame_detections persists exactly one row per
\* detection, tracked or not, with the call's camera_id and frame_number;
\* and when every call made has returned, the number of persisted rows is
\* total_detections.
C34_OneRowPerDetection ==
    /\ [](AllReturned => Len(db) = stats.total_detections)
    /\ OneRowPerDetection

\* the detections of the call under way that are still to be stored
Pending ==
    IF \E c \in Cameras : pPc[c] = "loop"
    THEN LET c == CHOOSE c \in Cameras : pPc[c] = "loop"
         IN  Len(pDets[c]) - pIdx[c] + 1
    ELSE 0

\* the rows that total_detections does not account for
Excess == Len(db) + Pending - stats.total_detections

\* the step is the construction of the aggregator on its database
Constructed == rebuiltAt = -1 /\ rebuiltAt' >= 0

\* no call has raised since the aggregator was constructed
NoneDied == \A c \in Cameras : pPc[c] # "died"

\* C34 (amended): one row per detection as above; the number of persisted
\* rows is total_detections plus the number of rows the database held when
\* the aggregator was constructed (none on a fresh database), as long as
\* every call succeeds.
C34_RowsSinceConstruction ==
    /\ OneRowPerDetection
    /\ [][(~Constructed /\ NoneDied') => Excess' = Excess]_vars
    /\ [][Constructed => (Excess' = Len(db) /\ db' = db)]_vars

\* after a restart on a database of two rows, a call that stored a detection
\* without a track has returned
C34_Witness ==
    /\ AllReturned
    /\ stats.total_detections = 2
    /\ Len(db) = 4
    /\ db[4].track_id = NoTrack
    /\ db[4].frame_number = 1

\* ---------------------------------------------------------------- C35
\* camera c's call returns in this step
Returns(c) == pPc[c] = "alerts" /\ pPc'[c] = "idle"

\* C35 (as claimed): the peak is unset (count 0, no time) until a call with
\* detections returns; a returning call of n detections leaves a peak count
\* of the larger of n and the previous peak, and changes the peak count and
\* the peak time (to the call's timestamp) only when n is strictly greater
\* than the previous peak; nothing else changes them.  So the peak count is
\* the largest count among the calls returned so far.
C35_Peak ==
    /\ [](stats.peak_time = -1 <=> stats.peak_count = 0)
    /\ [](AllReturned =>
             \A c \in Cameras : Len(current_detections[c]) <= stats.peak_count)
    /\ [][\A c \in Cameras :
              Returns(c) =>
                  LET n == Len(pDets[c])
                  IN  IF n > stats.peak_count
                      THEN /\ stats'.peak_count = n
                           /\ stats'.peak_time = pTime[c]
                      ELSE /\ stats'.peak_count = stats.peak_count
                           /\ stats'.peak_time = stats.peak_time]_vars
    /\ [][(stats'.peak_count # stats.peak_count \/ stats'.peak_time # stats.peak_time)
              => \E c \in Cameras : Returns(c)]_vars

\* a frame of two detections set the peak at time 0; a later frame of two
\* has returned at a later time and the peak time is still 0
C35_Witness ==
    /\ AllReturned
    /\ stats.peak_count = 2
    /\ stats.peak_time = 0
    /\ \E c \in Cameras : Len(current_detections[c]) = 2 /\ pTime[c] > 0

\* ---------------------------------------------------------------- C36
\* the display cells of camera c in which something was counted
Shown(c) == {AggCell(x) : x \in {y \in BagToSet(zone_heatmap) : y.camera = c}}

\* the sum of the values of a set of points
RECURSIVE SumValues(_)
SumValues(points) ==
    IF points = {} THEN 0
    ELSE LET p == CHOOSE q \in points : TRUE
         IN  p.value + SumValues(points \ {p})

\* C36 (as claimed): for a camera without heatmap data get_heatmap_data
\* returns max 0 and no points; otherwise it returns one point for every
\* display cell in which something was counted, placed on the canvas and
\* with a value above 0, and no other point; the values sum to the total of
\* the camera's grid and max is the largest of them.  The call returns what
\* the function gives and makes no grid and changes no count.
C36_HeatmapData ==
    /\ [](\A c \in Cameras :
             LET r == get_heatmap_data(zone_heatmap, heatmap_keys, c)
             IN  IF GridTotal(c) = 0
                 THEN r.max = 0 /\ r.data = {}
                 ELSE /\ Cardinality(r.data) = Cardinality(Shown(c))
                      /\ \A a \in Shown(c) :
                             \E p \in r.data :
                                 /\ p.x = (a.gx * CanvasWidth) \div VisGridSize
                                 /\ p.y = (a.gy * CanvasHeight) \div VisGridSize
                                 /\ p.value > 0
                      /\ SumValues(r.data) = GridTotal(c)
                      /\ \E p \in r.data : p.value = r.max
                      /\ \A p \in r.data : p.value <= r.max)
    /\ [][(lastRead' # lastRead /\ lastRead'.op = "get_heatmap_data") =>
              /\ \E c \in Cameras :
                     lastRead'.result = get_heatmap_data(zone_heatmap, heatmap_keys, c)
              /\ heatmap_keys' = heatmap_keys
              /\ zone_heatmap' = zone_heatmap]_vars

\* a camera's three counted cells are returned as two points, of 2 and 1
C36_Witness ==
    /\ lastRead.op = "get_heatmap_data"
    /\ lastRead.result.max = 2
    /\ Cardinality(lastRead.result.data) = 2
    /\ \E c \in Cameras :
           /\ lastRead.result = get_heatmap_data(zone_heatmap, heatmap_keys, c)
           /\ Cardinality({x \in BagToSet(zone_heatmap) : x.camera = c}) = 3

\* ---------------------------------------------------------------- C37
\* a step of a call of camera c with an empty detection list: its entry, or
\* its end
EmptyCallStep(c) ==
    \/ pPc[c] = "idle" /\ pPc'[c] = "alerts" /\ pDets'[c] = <<>>
    \/ pPc[c] = "alerts" /\ pDets[c] = <<>> /\ pPc'[c] # "alerts"

\* C37 (as claimed): a call with an empty detection list returns count 0
\* without error and with no high_activity and no low_confidence alert, and
\* leaves total_detections, the unique tracks, every track history, every
\* heatmap, the peak and the average confidence as they were.
C37_EmptyFrame ==
    [][\A c \in Cameras :
           EmptyCallStep(c) =>
               /\ pPc'[c] # "died"
               /\ pPc'[c] = "idle" =>
                      /\ pResult'[c].count = 0
                      /\ \A i \in 1..Len(pResult'[c].alerts) :
                             pResult'[c].alerts[i].type \notin
                                 {"high_activity", "low_confidence"}
               /\ stats'.total_detections = stats.total_detections
               /\ stats'.unique_tracks = stats.unique_tracks
               /\ tracking_history' = tracking_history
               /\ history_keys' = history_keys
               /\ zone_heatmap' = zone_heatmap
               /\ heatmap_keys' = heatmap_keys
               /\ stats'.peak_count = stats.peak_count
               /\ stats'.peak_time = stats.peak_time
               /\ stats'.avg_confidence = stats.avg_confidence]_vars

\* ---------------------------------------------------------------- C38
\* the tracks of a list of detections
TracksOf(dets) == {dets[i].track_id : i \in 1..Len(dets)}

WorkerTerminated == wPc \in {"done", "died"}

\* C39 (as claimed): once the worker has terminated, after a failed write
\* or after the transcoder exited, write_frame puts no frame in the queue: a
\* call of write_frame that begins then finds the pipeline disabled or not
\* running at its test and returns.
C39_NoEnqueueAfterWorker ==
    (WorkerTerminated /\ capPc = "wf_check") => (~enabled \/ ~running)

\* ---------------------------------------------------------------- C40
\* C40 (as claimed): get_tracking_paths(limit) returns at most limit paths
\* for a limit of 0 or more, each of them the positions of its track in the
\* order they arrived and not empty, and changes nothing in the aggregator.
C40_TrackingPaths ==
    [][(lastRead' # lastRead /\ lastRead'.op = "get_tracking_paths") =>
           LET limit == lastRead'.result.limit
               paths == lastRead'.result.paths
           IN  /\ Cardinality(DOMAIN paths) <= limit
               /\ \A t \in DOMAIN paths :
                      /\ paths[t] # <<>>
                      /\ Len(paths[t]) = Len(tracking_history[t])
                      /\ \A i \in 1..Len(paths[t]) :
                             /\ paths[t][i].x = tracking_history[t][i][1]
                             /\ paths[t][i].y = tracking_history[t][i][2]
                             /\ paths[t][i].time = tracking_history[t][i][3]
               /\ UNCHANGED <<current_detections, stats, detection_confidence,
                              tracking_history, history_keys, movement_patterns,
                              zone_heatmap, heatmap_keys, db, alerts_db>>]_vars

====
